---- MODULE Spec2Model ----
(***************************************************************************)
(* Adaptive Tesseract OCR scheduler (tesseract_ocr.py) and the table       *)
(* re-OCR merge (table_ocr.py) of the Tender AI platform.                  *)
(*                                                                         *)
(* Text is a sequence of lexical tokens:                                   *)
(*   "D"  the three dashes "---"        "P"  the word "Page"               *)
(*   "s"  a space   "n"  a newline      "0".."9"  a decimal digit          *)
(*   any other string: an opaque run of characters holding no dash, no     *)
(*   digit, no whitespace and no letter of "Page" next to a token border.  *)
(* Times are whole seconds (every timeout of the source is one).           *)
(***************************************************************************)
EXTENDS Integers, Sequences, FiniteSets, TLC

(***************************************************************************)
(* Bounds of the model                                                     *)
(***************************************************************************)
\* largest page count of a document given to the scheduler
MaxPages == 2

(***************************************************************************)
(* Text helpers (Python str / re semantics on token sequences)             *)
(***************************************************************************)
Digits == {"0", "1", "2", "3", "4", "5", "6", "7", "8", "9"}

IsWs(t) == t \in {"s", "n"}

IsDigit(t) == t \in Digits

DigitVal(t) ==
    CASE t = "0" -> 0 [] t = "1" -> 1 [] t = "2" -> 2 [] t = "3" -> 3
      [] t = "4" -> 4 [] t = "5" -> 5 [] t = "6" -> 6 [] t = "7" -> 7
      [] t = "8" -> 8 [] t = "9" -> 9

DigitTok(d) ==
    CASE d = 0 -> "0" [] d = 1 -> "1" [] d = 2 -> "2" [] d = 3 -> "3"
      [] d = 4 -> "4" [] d = 5 -> "5" [] d = 6 -> "6" [] d = 7 -> "7"
      [] d = 8 -> "8" [] d = 9 -> "9"

\* str(n) of a page number, as digit tokens
RECURSIVE NumToks(_)
NumToks(n) ==
    IF n < 10 THEN <<DigitTok(n)>>
    ELSE NumToks(n \div 10) \o <<DigitTok(n % 10)>>

\* int(s) of a run of digit tokens
RECURSIVE IntOf(_)
IntOf(s) ==
    IF Len(s) = 0 THEN 0
    ELSE 10 * IntOf(SubSeq(s, 1, Len(s) - 1)) + DigitVal(s[Len(s)])

\* str.strip()
RECURSIVE LStrip(_)
LStrip(s) ==
    IF Len(s) > 0 /\ IsWs(s[1]) THEN LStrip(Tail(s)) ELSE s

RECURSIVE RStrip(_)
RStrip(s) ==
    IF Len(s) > 0 /\ IsWs(s[Len(s)]) THEN RStrip(SubSeq(s, 1, Len(s) - 1)) ELSE s

Strip(s) == LStrip(RStrip(s))

\* first index >= i of s that holds no whitespace token (Len(s)+1 if none)
RECURSIVE SkipWs(_, _)
SkipWs(s, i) ==
    IF i <= Len(s) /\ IsWs(s[i]) THEN SkipWs(s, i + 1) ELSE i

\* first index >= i of s that holds no digit token (Len(s)+1 if none)
RECURSIVE SkipDigits(_, _)
SkipDigits(s, i) ==
    IF i <= Len(s) /\ IsDigit(s[i]) THEN SkipDigits(s, i + 1) ELSE i

TokAt(s, i) == IF i >= 1 /\ i <= Len(s) THEN s[i] ELSE "<eos>"

\* re.match of  ---\s*Page\s+(\d+)\s*---  at index i of s:
\* [ok, num (the digits captured), end (first index after the match)]
MatchMarker(s, i) ==
    LET j1 == SkipWs(s, i + 1)
        j2 == SkipWs(s, j1 + 1)
        j3 == SkipDigits(s, j2)
        j4 == SkipWs(s, j3)
        ok == /\ TokAt(s, i) = "D"
              /\ TokAt(s, j1) = "P"
              /\ j2 > j1 + 1
              /\ j3 > j2
              /\ TokAt(s, j4) = "D"
    IN  IF ok THEN [ok |-> TRUE, num |-> SubSeq(s, j2, j3 - 1), end |-> j4 + 1]
        ELSE [ok |-> FALSE, num |-> <<>>, end |-> i]

\* re.split(r'---\s*Page\s+(\d+)\s*---', s), scanning from index i with the
\* current piece starting at index c: <<piece, num, piece, num, ..., piece>>
RECURSIVE SplitFrom(_, _, _)
SplitFrom(s, c, i) ==
    LET hits == {j \in i..Len(s) : MatchMarker(s, j).ok}
    IN  IF hits = {} THEN <<SubSeq(s, c, Len(s))>>
        ELSE LET first == CHOOSE j \in hits : \A k \in hits : j <= k
                 m == MatchMarker(s, first)
             IN  <<SubSeq(s, c, first - 1), m.num>> \o SplitFrom(s, m.end, m.end)

SplitPages(s) == SplitFrom(s, 1, 1)

\* the (page number, content) pairs the page splitter walks over
PagePairs(full_text) ==
    LET pages == SplitPages(full_text)
    IN  [k \in 1..((Len(pages) - 1) \div 2) |->
            [num |-> IntOf(pages[2 * k]), content |-> pages[2 * k + 1]]]

\* f"--- Page {p} ---"
Marker(p) == <<"D", "s", "P", "s">> \o NumToks(p) \o <<"s", "D">>


\* "\n\n".join(parts)
RECURSIVE JoinParts(_)
JoinParts(parts) ==
    IF Len(parts) = 0 THEN <<>>
    ELSE IF Len(parts) = 1 THEN parts[1]
    ELSE parts[1] \o <<"n", "n">> \o JoinParts(Tail(parts))

\* sub occurs in s as a contiguous run of tokens (Python: sub in s)
Contains(s, sub) ==
    \E i \in 1..(Len(s) - Len(sub) + 1) : SubSeq(s, i, i + Len(sub) - 1) = sub

(***************************************************************************)
(* Python dict with insertion order: a sequence of [k, v] entries          *)
(***************************************************************************)
DictKeys(d) == [i \in 1..Len(d) |-> d[i].k]

DictHas(d, key) == \E i \in 1..Len(d) : d[i].k = key

DictGet(d, key) == d[CHOOSE i \in 1..Len(d) : d[i].k = key].v

DictSet(d, key, val) ==
    IF DictHas(d, key)
    THEN [i \in 1..Len(d) |-> IF d[i].k = key THEN [k |-> key, v |-> val] ELSE d[i]]
    ELSE Append(d, [k |-> key, v |-> val])

\* sorted(keys) for a sequence of distinct integers
RECURSIVE SortedKeys(_)
SortedKeys(keys) ==
    IF Len(keys) = 0 THEN <<>>
    ELSE LET m == CHOOSE i \in 1..Len(keys) : \A j \in 1..Len(keys) : keys[i] <= keys[j]
             rest == [j \in 1..(Len(keys) - 1) |-> IF j < m THEN keys[j] ELSE keys[j + 1]]
         IN  <<keys[m]>> \o SortedKeys(rest)

(***************************************************************************)
(* Page profiles (tesseract_ocr.py)                                        *)
(***************************************************************************)
PageType == {"simple", "medium", "complex", "image"}

\* the per-type configuration table of build_page_profiles
ProfileOf(num, page_type) ==
    CASE page_type = "simple" ->
            [page_num |-> num, page_type |-> page_type, dpi |-> 150, psm |-> 3,
             timeout_s |-> 6, use_table_ocr |-> FALSE]
      [] page_type = "medium" ->
            [page_num |-> num, page_type |-> page_type, dpi |-> 200, psm |-> 6,
             timeout_s |-> 8, use_table_ocr |-> TRUE]
      [] page_type = "complex" ->
            [page_num |-> num, page_type |-> page_type, dpi |-> 250, psm |-> 6,
             timeout_s |-> 10, use_table_ocr |-> TRUE]
      [] OTHER ->
            [page_num |-> num, page_type |-> page_type, dpi |-> 150, psm |-> 1,
             timeout_s |-> 5, use_table_ocr |-> FALSE]

\* the profile given to every page when the pre-scan conversion raises
DefaultProfile(num) ==
    [page_num |-> num, page_type |-> "medium", dpi |-> 150, psm |-> 3,
     timeout_s |-> 8, use_table_ocr |-> FALSE]

\* build_page_profiles for a document pdfinfo counts n_pages pages in:
\* prescan_ok says whether the 72 DPI conversion returned, types holds the
\* class of each thumbnail it returned.
build_page_profiles(n_pages, prescan_ok, types) ==
    IF n_pages = 0 THEN <<>>
    ELSE IF ~prescan_ok THEN [i \in 1..n_pages |-> DefaultProfile(i)]
    ELSE [i \in 1..Len(types) |-> ProfileOf(i, types[i])]

\* the ceiling of the estimated time, in seconds
EstimateCeiling == 30

FastDpi == 150

FastTimeout == 6

Min(a, b) == IF a <= b THEN a ELSE b

RECURSIVE SumTimeouts(_)
SumTimeouts(ps) ==
    IF Len(ps) = 0 THEN 0 ELSE ps[1].timeout_s + SumTimeouts(Tail(ps))

\* sum(p.timeout_s * 0.5 for p in profiles) > 30.0
OverBudget(ps) == SumTimeouts(ps) > 2 * EstimateCeiling

\* the fast-mode loop over the profiles
Mut_Downgrade(p) == p

Downgrade(p) ==
    [p EXCEPT !.dpi = Min(p.dpi, FastDpi),
              !.timeout_s = Min(p.timeout_s, FastTimeout),
              !.use_table_ocr = (p.page_type = "complex")]

ApplyFastMode(ps) ==
    IF OverBudget(ps) THEN [i \in 1..Len(ps) |-> Downgrade(ps[i])] ELSE ps

\* dpi_groups: the profiles grouped by dpi, groups in order of first use
RECURSIVE DpiGroups(_)
DpiGroups(ps) ==
    IF Len(ps) = 0 THEN <<>>
    ELSE LET init == DpiGroups(SubSeq(ps, 1, Len(ps) - 1))
             p == ps[Len(ps)]
         IN  IF \E g \in 1..Len(init) : init[g].dpi = p.dpi
             THEN [g \in 1..Len(init) |->
                     IF init[g].dpi = p.dpi
                     THEN [init[g] EXCEPT !.members = Append(@, p)]
                     ELSE init[g]]
             ELSE Append(init, [dpi |-> p.dpi, members |-> <<p>>])

\* group_profiles[batch_start:batch_start + batch_size]
BatchOf(members, start, size) ==
    SubSeq(members, start + 1, Min(start + size, Len(members)))

\* os.cpu_count() -> worker count
optimal_workers(cpu_count) == IF cpu_count - 2 > 2 THEN cpu_count - 2 ELSE 2

(***************************************************************************)
(* Attempt parameters and placeholder texts                                *)
(***************************************************************************)
\* how the first attempt runs a page: the resolution it was rasterized at
\* and the timeout given to the plain-text engine call
Attempt1Params(arg) == [res |-> arg.dpi, timeout |-> arg.timeout_s]

\* the timeout of the last-resort engine call
FallbackTimeout == 5

\* variant: a fallback at full size with a longer timeout
Mut_FallbackParams(a1) == [res |-> a1.res, timeout |-> 8]

\* how _ocr_fallback runs it: the same image at half width and height
FallbackParams(a1) == [res |-> a1.res \div 2, timeout |-> FallbackTimeout]

\* the timeout process_page_table gets for its word-detection call
TableTimeout(arg) == arg.timeout_s - 1

ConversionFailedText(p) ==
    <<"[Page", "s">> \o NumToks(p) \o <<"s", "conversion failed]">>

OcrFailedText(p) ==
    <<"[Page", "s">> \o NumToks(p) \o <<":", "s", "OCR failed after all attempts]">>

FutureTimeoutText(p) ==
    <<"[Page", "s">> \o NumToks(p) \o <<":", "s", "timeout]">>

\* f"[OCR FAILED: {str(e)}]"
DocFailedText == <<"[OCR", "s", "FAILED:", "s", "e]">>

\* the LaTeX of a reconstructed table; words: the text that landed in cells
LatexOf(words) == <<"% TABLE", "n", "\\begin{tabular}", "n">> \o words \o <<"n", "\\end{tabular}">>


(***************************************************************************)
(* The adaptive OCR scheduler: ocr_full_pdf_tesseract_parallel             *)
(***************************************************************************)
VARIABLES
    total_pages,    \* pages pdfinfo counts in the document
    batch_size,     \* argument batch_size
    max_workers,    \* argument max_workers, or _get_optimal_workers()
    pc,             \* where the calling thread is
    profiles,       \* List[PageProfile]
    all_results,    \* Dict[int, str]
    dpi_groups,     \* Dict[int, List[PageProfile]]
    gi,             \* index of the DPI group being processed
    batch_start,    \* batch_start of the batch being processed
    ci,             \* index in the batch of the next page to convert
    page_args,      \* the batch's page_args
    task,           \* per page: where its worker task is
    fut,            \* per page: what its future holds once finished
    log,            \* per page: what happened to it (history)
    sorted_pages,   \* sorted(all_results.keys())
    full_text,      \* returned text
    page_count      \* returned page count

(***************************************************************************)
(* State of the table re-OCR merge: reocr_bordereau_pages (table_ocr.py)   *)
(***************************************************************************)
VARIABLES
    m_pc,             \* where reocr_bordereau_pages is
    original_text,    \* argument original_text
    force_pages,      \* argument force_pages (<<>>: None or empty)
    bordereau_pages,  \* the pages selected for re-OCR
    table_results,    \* Dict[int, str] of ocr_pages_with_table_extraction
    mi,               \* index of the loop in progress
    m_kind,           \* per page: how its table reconstruction ended (history)
    result_text       \* result_text, returned at the end

svars == <<total_pages, batch_size, max_workers, pc, profiles, all_results, dpi_groups, gi,
           batch_start, ci, page_args, task, fut, log, sorted_pages, full_text, page_count>>

mvars == <<m_pc, original_text, force_pages, bordereau_pages, table_results, mi, m_kind,
           result_text>>

(***************************************************************************)
(* State of the table pipeline on one page image: detect_grid and          *)
(* process_page_table (table_ocr.py)                                       *)
(***************************************************************************)
VARIABLES
    g_pc,          \* where process_page_table is
    raw_h,         \* image rows the horizontal projection passes its threshold on
    raw_v,         \* image columns the vertical projection passes its threshold on
    h_positions,   \* clustered horizontal line positions
    v_positions,   \* clustered vertical line positions
    cells,         \* List[GridCell]: the cells of the virtual grid, with their words
    g_words,       \* List[WordBox]: what extract_word_boxes returned
    g_latex,       \* what cells_to_latex returned
    g_calls,       \* engine calls made for the page
    g_result       \* what process_page_table returned

gvars == <<g_pc, raw_h, raw_v, h_positions, v_positions, cells, g_words, g_latex, g_calls,
           g_result>>

(***************************************************************************)
(* Calls of the page classifier, _classify_page_complexity                 *)
(***************************************************************************)
VARIABLES
    c_hist         \* the calls made so far: thumbnail given, class returned

cvars == <<c_hist>>

(***************************************************************************)
(* The profile builder seen from its caller                                *)
(***************************************************************************)
VARIABLES
    doc_readable,  \* the page-count query on the document succeeds
    built          \* what build_page_profiles returned, as it returned it

bvars == <<doc_readable, built>>

(***************************************************************************)
(* State of the Azure re-processing: reocr_bordereau_pages_azure           *)
(***************************************************************************)
VARIABLES
    a_pc,          \* where reocr_bordereau_pages_azure is
    a_text,        \* argument original_text
    a_force,       \* argument force_pages (<<>>: None or empty)
    a_detected,    \* what _ai_detect_bordereau_pages returned ("skipped" if not called)
    a_pages,       \* bordereau_pages
    a_sent,        \* the page_numbers analyze_bordereau_pages was called with
    azure_results, \* Dict[int, str] of analyze_bordereau_pages
    a_result       \* the returned text

avars == <<a_pc, a_text, a_force, a_detected, a_pages, a_sent, azure_results, a_result>>

(***************************************************************************)
(* The PaddleOCR engine singleton: _initialize_paddle_ocr (paddle_ocr.py)  *)
(***************************************************************************)
VARIABLES
    paddle_instance,  \* _PADDLE_OCR_INSTANCE: 0 for None, else the engine built
    paddle_lock,      \* _PADDLE_OCR_LOCK: 0 when free, else the thread holding it
    t_pc,             \* per thread: where it is in _initialize_paddle_ocr
    t_calls,          \* per thread: calls it has made
    t_rets,           \* per thread: what its calls returned, and by which exit (history)
    n_built           \* engines the constructor has built (history)

pvars == <<paddle_instance, paddle_lock, t_pc, t_calls, t_rets, n_built>>

(***************************************************************************)
(* The scraper endpoint: run_scraper and the thread it starts (routes.py)  *)
(***************************************************************************)
VARIABLES
    scraper_instance, \* _scraper_instance: 0 for None, else the job whose thread built it
    is_running,       \* _scraper_instance.progress.is_running
    responses,        \* per request: "none", "started" or "rejected" (HTTP 400)
    job_status,       \* per request: status of the ScraperJob it created, "none" if none
    thr_pc            \* per request: where the scraper thread it started is

rvars == <<scraper_instance, is_running, responses, job_status, thr_pc>>

(***************************************************************************)
(* The document pipeline: process_tender_documents (pipeline_processor.py) *)
(***************************************************************************)
VARIABLES
    d_pc,                \* where process_tender_documents is
    bordereau_files,     \* the three lists detect_and_prioritize_files returned
    cps_files,
    other_files,
    has_callback,        \* on_bordereau_ready is given
    d_queue,             \* files the running process_documents_concurrent has left
    all_documents,       \* ProcessedDocument list, in processing order
    has_excel_bordereau,
    ready_calls          \* the calls of on_bordereau_ready made so far

dvars == <<d_pc, bordereau_files, cps_files, other_files, has_callback, d_queue,
           all_documents, has_excel_bordereau, ready_calls>>

wvars == <<rvars, dvars>>

\* the components added around the scheduler and the table merge
xvars == <<avars, pvars, wvars>>

vars == <<svars, mvars, gvars, cvars, bvars, xvars>>

\* what the actions of each component leave alone
outside_sched == <<mvars, gvars, cvars, bvars, xvars>>
outside_merge == <<svars, gvars, cvars, bvars, xvars>>
outside_grid == <<svars, mvars, cvars, bvars, xvars>>
outside_classifier == <<svars, mvars, gvars, bvars, xvars>>
outside_azure == <<svars, mvars, gvars, cvars, bvars, pvars, wvars>>
outside_paddle == <<svars, mvars, gvars, cvars, bvars, avars, wvars>>
outside_scraper == <<svars, mvars, gvars, cvars, bvars, avars, pvars, dvars>>
outside_pipeline == <<svars, mvars, gvars, cvars, bvars, avars, pvars, rvars>>

\* reocr_bordereau_pages_azure is not in use
AzureIdle ==
    /\ a_pc = "idle"
    /\ a_text = <<>>
    /\ a_force = <<>>
    /\ a_detected = [called |-> FALSE, pages |-> <<>>]
    /\ a_pages = <<>>
    /\ a_sent = [called |-> FALSE, pages |-> <<>>]
    /\ azure_results = <<>>
    /\ a_result = <<>>

\* threads that may call _initialize_paddle_ocr
MaxThreads == 2

Threads == 1..MaxThreads

\* no thread has called _initialize_paddle_ocr
PaddleIdle ==
    /\ paddle_instance = 0
    /\ paddle_lock = 0
    /\ t_pc = [t \in Threads |-> "idle"]
    /\ t_calls = [t \in Threads |-> 0]
    /\ t_rets = [t \in Threads |-> {}]
    /\ n_built = 0

\* requests served at once by the scraper endpoint
MaxRequests == 3

Requests == 1..MaxRequests

\* no request has reached run_scraper
ScraperIdle ==
    /\ scraper_instance = 0
    /\ is_running = FALSE
    /\ responses = [r \in Requests |-> "none"]
    /\ job_status = [r \in Requests |-> "none"]
    /\ thr_pc = [r \in Requests |-> "none"]

\* process_tender_documents is not in use
PipelineIdle ==
    /\ d_pc = "idle"
    /\ bordereau_files = <<>>
    /\ cps_files = <<>>
    /\ other_files = <<>>
    /\ has_callback = FALSE
    /\ d_queue = <<>>
    /\ all_documents = <<>>
    /\ has_excel_bordereau = FALSE
    /\ ready_calls = <<>>

WebIdle == ScraperIdle /\ PipelineIdle

OthersIdle == AzureIdle /\ PaddleIdle /\ WebIdle

\* the table pipeline is not in use
GridIdle ==
    /\ g_pc = "idle"
    /\ raw_h = {}
    /\ raw_v = {}
    /\ h_positions = <<>>
    /\ v_positions = <<>>
    /\ cells = <<>>
    /\ g_words = <<>>
    /\ g_latex = [n_rows |-> 0, n_cols |-> 0, rows |-> <<>>]
    /\ g_calls = 0
    /\ g_result = [kind |-> "pending", rows |-> 0, cols |-> 0]

\* the classifier has not been called
ClassifyIdle == c_hist = <<>>

\* a readable document, build_page_profiles not observed
BuilderIdle ==
    /\ doc_readable = TRUE
    /\ built = [state |-> "none", profiles |-> <<>>]

\* the merge is not in use
MergeIdle ==
    /\ m_pc = "idle"
    /\ original_text = <<>>
    /\ force_pages = <<>>
    /\ bordereau_pages = <<>>
    /\ table_results = <<>>
    /\ mi = 1
    /\ m_kind = <<>>
    /\ result_text = <<>>

\* batch sizes: the default, and one that splits every group
BatchSizes == {1, 5}

\* os.cpu_count() of the machine
CpuCounts == {4, 5}

\* what the OCR engine may print for a page, before .strip()
RawTexts == { <<"s">>, <<"x", "n">> }

\* the words a reconstructed table may hold
CellWords == { <<"x">> }

Pages == 1..total_pages

NoParams == [res |-> 0, timeout |-> 0]

NoFuture == [exc |-> FALSE, text |-> <<>>]

NoLog ==
    [raster |-> "none", a1 |-> "none", a2 |-> "none", futexc |-> FALSE,
     calls |-> 0, attempts |-> 0, p1 |-> NoParams, p2 |-> NoParams,
     timeout1 |-> FALSE, budget1 |-> 0]

Init ==
    /\ total_pages \in 0..MaxPages
    /\ batch_size \in BatchSizes
    /\ max_workers \in {optimal_workers(c) : c \in CpuCounts}
    /\ pc = "start"
    /\ profiles = <<>>
    /\ all_results = <<>>
    /\ dpi_groups = <<>>
    /\ gi = 1
    /\ batch_start = 0
    /\ ci = 1
    /\ page_args = <<>>
    /\ task = [p \in Pages |-> "none"]
    /\ fut = [p \in Pages |-> NoFuture]
    /\ log = [p \in Pages |-> NoLog]
    /\ sorted_pages = <<>>
    /\ full_text = <<>>
    /\ page_count = 0
    /\ MergeIdle
    /\ GridIdle
    /\ ClassifyIdle
    /\ BuilderIdle
    /\ OthersIdle

CurBatch == BatchOf(dpi_groups[gi].members, batch_start, batch_size)

ArgOf(p) == page_args[CHOOSE i \in 1..Len(page_args) : page_args[i].page_num = p]

InBatch(p) == \E i \in 1..Len(page_args) : page_args[i].page_num = p

\* tasks holding a worker thread
Running == {p \in Pages : task[p] \in {"table", "std", "fallback", "hung"}}

\* the task the executor's queue hands out next
FirstQueued(p) ==
    \E i \in 1..Len(page_args) :
        /\ page_args[i].page_num = p
        /\ task[p] = "queued"
        /\ \A j \in 1..(i - 1) : task[page_args[j].page_num] # "queued"

\* Phase 1: build_page_profiles, the fast-mode downgrade, "if not profiles"
Prescan ==
    /\ pc = "start"
    /\ \E prescan_ok \in BOOLEAN, types \in [1..total_pages -> PageType] :
            profiles' = ApplyFastMode(build_page_profiles(total_pages, prescan_ok, types))
    /\ dpi_groups' = DpiGroups(profiles')
    /\ pc' = IF profiles' = <<>> THEN "done" ELSE "convert"
    /\ UNCHANGED <<total_pages, batch_size, max_workers, all_results, gi, batch_start,
                   ci, page_args, task, fut, log, sorted_pages, full_text, page_count>>
    /\ UNCHANGED outside_sched

\* the file cannot be read or the pre-scan raises: the outer except
OuterExcept ==
    /\ pc = "start"
    /\ full_text' = DocFailedText
    /\ page_count' = 0
    /\ pc' = "done"
    /\ UNCHANGED <<total_pages, batch_size, max_workers, profiles, all_results, dpi_groups, gi,
                   batch_start, ci, page_args, task, fut, log, sorted_pages>>
    /\ UNCHANGED outside_sched

\* the next batch of the two batch loops
NextPos ==
    IF batch_start + batch_size < Len(dpi_groups[gi].members)
    THEN [gi |-> gi, bs |-> batch_start + batch_size]
    ELSE [gi |-> gi + 1, bs |-> 0]

Advance ==
    /\ gi' = NextPos.gi
    /\ batch_start' = NextPos.bs
    /\ ci' = 1
    /\ page_args' = <<>>
    /\ pc' = IF NextPos.gi > Len(dpi_groups) THEN "combine" ELSE "convert"

\* variant: the conversion exception is swallowed, no placeholder recorded
Mut_OnConversionRaise(results, p) == results

\* except Exception around convert_from_bytes
OnConversionRaise(results, p) == DictSet(results, p, ConversionFailedText(p))

\* "if images:" has no else branch
OnNoImage(results, p) == results

\* the argument tuple queued for a page (page_args.append, l.387-394)
PageArg(profile, group_dpi) ==
    [page_num |-> profile.page_num, dpi |-> group_dpi, psm |-> profile.psm,
     timeout_s |-> profile.timeout_s, use_table_ocr |-> profile.use_table_ocr]

\* one turn of "for profile in batch", and after the last one the
\* "if not page_args: continue" or the submission of the batch
ConvertPage ==
    /\ pc = "convert"
    /\ \E outcome \in {"raise", "noimage", "image"} :
         LET profile == CurBatch[ci]
             p == profile.page_num
             args == IF outcome = "image"
                     THEN Append(page_args, PageArg(profile, dpi_groups[gi].dpi))
                     ELSE page_args
         IN  /\ all_results' = CASE outcome = "raise" -> OnConversionRaise(all_results, p)
                                 [] outcome = "noimage" -> OnNoImage(all_results, p)
                                 [] OTHER -> all_results
             /\ log' = [log EXCEPT ![p].raster = outcome]
             /\ IF ci < Len(CurBatch)
                THEN /\ ci' = ci + 1
                     /\ page_args' = args
                     /\ UNCHANGED <<pc, gi, batch_start, task>>
                ELSE IF args = <<>>
                THEN Advance /\ UNCHANGED task
                ELSE /\ pc' = "ocr"
                     /\ page_args' = args
                     /\ task' = [q \in Pages |->
                                   IF \E i \in 1..Len(args) : args[i].page_num = q
                                   THEN "queued" ELSE task[q]]
                     /\ UNCHANGED <<ci, gi, batch_start>>
    /\ UNCHANGED <<total_pages, batch_size, max_workers, profiles, dpi_groups, fut, sorted_pages, full_text,
                   page_count>>
    /\ UNCHANGED outside_sched

\* a worker thread takes the task: imports, _configure_tesseract (outside
\* the try), then Image.open and the orientation fix (inside it)
StartTask(p) ==
    /\ pc = "ocr"
    /\ FirstQueued(p)
    /\ Cardinality(Running) < max_workers
    /\ \E outcome \in {"setup_raise", "open_raise", "ok"} :
         /\ task' = [task EXCEPT ![p] =
                CASE outcome = "setup_raise" -> "finished"
                  [] outcome = "open_raise" -> "fallback"
                  [] OTHER -> IF ArgOf(p).use_table_ocr THEN "table" ELSE "std"]
         /\ fut' = [fut EXCEPT ![p] =
                IF outcome = "setup_raise" THEN [exc |-> TRUE, text |-> <<>>] ELSE @]
         /\ log' = [log EXCEPT ![p] =
                IF outcome = "setup_raise" THEN @
                ELSE [@ EXCEPT !.attempts = 1,
                               !.p1 = Attempt1Params(ArgOf(p)),
                               !.a1 = IF outcome = "open_raise" THEN "fail" ELSE "run"]]
    /\ UNCHANGED <<total_pages, batch_size, max_workers, pc, profiles, all_results, dpi_groups, gi,
                   batch_start, ci, page_args, sorted_pages, full_text, page_count>>
    /\ UNCHANGED outside_sched

\* where the task goes when the try block of the first attempt raises
AfterAttempt1Failure == "fallback"

\* variant: the fallback runs after a first attempt that returned
Mut_AfterAttempt1Success == "fallback"

\* where the task goes when the first attempt returns: "return (page_num, ...)"
AfterAttempt1Success == "finished"

\* "Try table OCR first if flagged": process_page_table inside its own try
TableStage(p) ==
    /\ pc = "ocr"
    /\ task[p] = "table"
    /\ \/ \E outcome \in {"grid_raise", "no_grid"} :
            \* detect_grid raises, or finds no cell: no engine call is made
            /\ task' = [task EXCEPT ![p] = "std"]
            /\ UNCHANGED <<fut, log>>
       \/ \* extract_word_boxes ran the engine; reading its output raises
          /\ task' = [task EXCEPT ![p] = "std"]
          /\ log' = [log EXCEPT ![p].calls = @ + 1,
                                ![p].budget1 = @ + TableTimeout(ArgOf(p))]
          /\ UNCHANGED fut
       \/ \E outcome \in {"words", "no_words", "engine_raise", "engine_timeout"} :
            \E w \in CellWords :
              \* the engine ran (its exception is caught in extract_word_boxes)
              /\ task' = [task EXCEPT ![p] = AfterAttempt1Success]
              /\ fut' = [fut EXCEPT ![p] =
                    [exc |-> FALSE,
                     text |-> IF outcome = "words" THEN LatexOf(w) ELSE LatexOf(<<>>)]]
              /\ log' = [log EXCEPT ![p].calls = @ + 1, ![p].a1 = "ok",
                                    ![p].timeout1 = (outcome = "engine_timeout"),
                                    ![p].budget1 = @ + TableTimeout(ArgOf(p))]
       \/ \* the engine call never returns
          /\ task' = [task EXCEPT ![p] = "hung"]
          /\ log' = [log EXCEPT ![p].calls = @ + 1,
                                ![p].budget1 = @ + TableTimeout(ArgOf(p))]
          /\ UNCHANGED fut
    /\ UNCHANGED <<total_pages, batch_size, max_workers, pc, profiles, all_results, dpi_groups, gi,
                   batch_start, ci, page_args, sorted_pages, full_text, page_count>>
    /\ UNCHANGED outside_sched

\* "Standard OCR with optimized image": image_to_string at the profile's
\* psm and timeout
StdStage(p) ==
    /\ pc = "ocr"
    /\ task[p] = "std"
    /\ \/ \* convert("L"), the contrast or the sharpen filter raises
          /\ task' = [task EXCEPT ![p] = AfterAttempt1Failure]
          /\ log' = [log EXCEPT ![p].a1 = "fail"]
          /\ UNCHANGED fut
       \/ \E outcome \in {"raise", "timeout"} :
            /\ task' = [task EXCEPT ![p] = AfterAttempt1Failure]
            /\ log' = [log EXCEPT ![p].a1 = "fail", ![p].calls = @ + 1,
                                  ![p].timeout1 = (outcome = "timeout"),
                                  ![p].budget1 = @ + ArgOf(p).timeout_s]
            /\ UNCHANGED fut
       \/ \E raw \in RawTexts :
            /\ task' = [task EXCEPT ![p] = AfterAttempt1Success]
            /\ fut' = [fut EXCEPT ![p] = [exc |-> FALSE, text |-> Strip(raw)]]
            /\ log' = [log EXCEPT ![p].a1 = "ok", ![p].calls = @ + 1,
                                  ![p].budget1 = @ + ArgOf(p).timeout_s]
       \/ \* the engine call never returns
          /\ task' = [task EXCEPT ![p] = "hung"]
          /\ log' = [log EXCEPT ![p].calls = @ + 1,
                                ![p].budget1 = @ + ArgOf(p).timeout_s]
          /\ UNCHANGED fut
    /\ UNCHANGED <<total_pages, batch_size, max_workers, pc, profiles, all_results, dpi_groups, gi,
                   batch_start, ci, page_args, sorted_pages, full_text, page_count>>
    /\ UNCHANGED outside_sched

\* variant: the failed fallback returns empty text
Mut_FallbackFailureText(p) == <<>>

\* what _ocr_fallback returns when it recovered no text
FallbackFailureText(p) == OcrFailedText(p)

\* where the task goes when _ocr_fallback's own try block raises
AfterFallbackFailure == "finished"

\* _ocr_fallback: half-size image, fixed psm, short timeout
FallbackStage(p) ==
    /\ pc = "ocr"
    /\ task[p] = "fallback"
    /\ \/ \* Image.open or the resize raises
          /\ task' = [task EXCEPT ![p] = AfterFallbackFailure]
          /\ fut' = [fut EXCEPT ![p] = [exc |-> FALSE, text |-> FallbackFailureText(p)]]
          /\ log' = [log EXCEPT ![p].attempts = @ + 1, ![p].a2 = "fail",
                                ![p].p2 = FallbackParams(log[p].p1)]
       \/ \E outcome \in {"raise", "timeout"} :
            /\ task' = [task EXCEPT ![p] = AfterFallbackFailure]
            /\ fut' = [fut EXCEPT ![p] = [exc |-> FALSE, text |-> FallbackFailureText(p)]]
            /\ log' = [log EXCEPT ![p].attempts = @ + 1, ![p].a2 = "fail",
                                  ![p].calls = @ + 1,
                                  ![p].p2 = FallbackParams(log[p].p1)]
       \/ \E raw \in RawTexts :
            /\ task' = [task EXCEPT ![p] = "finished"]
            /\ fut' = [fut EXCEPT ![p] =
                  [exc |-> FALSE,
                   text |-> IF Strip(raw) # <<>> THEN Strip(raw)
                            ELSE FallbackFailureText(p)]]
            /\ log' = [log EXCEPT ![p].attempts = @ + 1,
                                  ![p].a2 = IF Strip(raw) # <<>> THEN "ok" ELSE "empty",
                                  ![p].calls = @ + 1,
                                  ![p].p2 = FallbackParams(log[p].p1)]
       \/ \* the engine call never returns
          /\ task' = [task EXCEPT ![p] = "hung"]
          /\ log' = [log EXCEPT ![p].attempts = @ + 1, ![p].calls = @ + 1,
                                ![p].p2 = FallbackParams(log[p].p1)]
          /\ UNCHANGED fut
    /\ UNCHANGED <<total_pages, batch_size, max_workers, pc, profiles, all_results, dpi_groups, gi,
                   batch_start, ci, page_args, sorted_pages, full_text, page_count>>
    /\ UNCHANGED outside_sched

\* except Exception around future.result
OnFutureException(results, p) == DictSet(results, p, FutureTimeoutText(p))

\* variant: every worker's result lands in the slot of page 1
Mut_ResultSlot(p) == 1

\* result_page: the page number the worker returns with its text, which is
\* the page_num of its own argument tuple
ResultSlot(p) == p

\* one turn of "for future in as_completed(futures)"; after the last future
\* the executor shuts down and the batch loops go on
Collect(p) ==
    /\ pc = "ocr"
    /\ task[p] = "finished"
    /\ all_results' = IF fut[p].exc THEN OnFutureException(all_results, p)
                      ELSE DictSet(all_results, ResultSlot(p), fut[p].text)
    /\ log' = [log EXCEPT ![p].futexc = fut[p].exc]
    /\ fut' = [fut EXCEPT ![p] = NoFuture]
    /\ task' = [task EXCEPT ![p] = "collected"]
    /\ IF \A q \in Pages : InBatch(q) /\ q # p => task[q] = "collected"
       THEN Advance
       ELSE UNCHANGED <<pc, gi, batch_start, ci, page_args>>
    /\ UNCHANGED <<total_pages, batch_size, max_workers, profiles, dpi_groups, sorted_pages, full_text,
                   page_count>>
    /\ UNCHANGED outside_sched

\* variant: pages written out in the order their results were recorded
Mut_PageOrder(results) == DictKeys(results)

\* the order the pages are written out in
PageOrder(results) == SortedKeys(DictKeys(results))

\* "Combine results in page order"
AssembleText(results, order) ==
    JoinParts([i \in 1..Len(order) |->
                 Marker(order[i]) \o <<"n">> \o DictGet(results, order[i])])

Combine ==
    /\ pc = "combine"
    /\ sorted_pages' = PageOrder(all_results)
    /\ full_text' = AssembleText(all_results, sorted_pages')
    /\ page_count' = Len(all_results)
    /\ pc' = "done"
    /\ UNCHANGED <<total_pages, batch_size, max_workers, profiles, all_results, dpi_groups, gi,
                   batch_start, ci, page_args, task, fut, log>>
    /\ UNCHANGED outside_sched

Next ==
    \/ Prescan
    \/ OuterExcept
    \/ ConvertPage
    \/ \E p \in Pages : StartTask(p)
    \/ \E p \in Pages : TableStage(p)
    \/ \E p \in Pages : StdStage(p)
    \/ \E p \in Pages : FallbackStage(p)
    \/ \E p \in Pages : Collect(p)
    \/ Combine

Spec == Init /\ [][Next]_vars

(***************************************************************************)
(* The wire format: the final assembly applied to every result dictionary  *)
(* the scheduler can hold, over page texts an OCR'd page can contain --     *)
(* among them text that itself looks like a page marker.                   *)
(***************************************************************************)
\* texts the scheduler can record for page p: stripped OCR text, a rebuilt
\* table, a placeholder
WireTexts(p) ==
    { <<>>,
      <<"x">>,
      <<"D", "s", "P", "s", "2", "s", "D">>,
      <<"x", "n", "D", "s", "P", "s", "2">>,
      LatexOf(<<"x">>),
      OcrFailedText(p),
      ConversionFailedText(p),
      FutureTimeoutText(p) }

\* every dict whose keys are distinct pages of S, in every insertion order
RECURSIVE WireDicts(_)
WireDicts(S) ==
    {<<>>} \cup
    UNION { { Append(d, [k |-> p, v |-> t]) : d \in WireDicts(S \ {p}), t \in WireTexts(p) }
            : p \in S }

WireInit ==
    /\ total_pages \in 1..MaxPages
    /\ batch_size = 5
    /\ max_workers \in {optimal_workers(c) : c \in CpuCounts}
    /\ pc = "combine"
    /\ profiles = <<>>
    /\ all_results \in WireDicts(Pages)
    /\ dpi_groups = <<>>
    /\ gi = 1
    /\ batch_start = 1
    /\ ci = 1
    /\ page_args = <<>>
    /\ task = [p \in Pages |-> "none"]
    /\ fut = [p \in Pages |-> NoFuture]
    /\ log = [p \in Pages |-> NoLog]
    /\ sorted_pages = <<>>
    /\ full_text = <<>>
    /\ page_count = 0
    /\ MergeIdle
    /\ GridIdle
    /\ ClassifyIdle
    /\ BuilderIdle
    /\ OthersIdle

WireNext == Combine

WireSpec == WireInit /\ [][WireNext]_vars

(***************************************************************************)
(* Page selection and merge: detect_bordereau_pages,                       *)
(* ocr_pages_with_table_extraction and reocr_bordereau_pages (table_ocr.py)*)
(* In page text, "K" stands for one match of a schedule keyword, "|" for   *)
(* a pipe character.                                                       *)
(***************************************************************************)
CountTok(s, t) == Cardinality({i \in 1..Len(s) : s[i] = t})

\* content.count('|') > 5
PipeLimit == 5

\* re.search(r'\d+\s+\d+', content)
HasNumberPair(s) ==
    \E i \in 1..Len(s) :
       /\ IsDigit(s[i])
       /\ LET j == SkipWs(s, i + 1)
          IN  j > i + 1 /\ j <= Len(s) /\ IsDigit(s[j])

\* variant: one keyword match is enough
Mut_IsBordereau(content) == CountTok(content, "K") >= 1

\* the test detect_bordereau_pages applies to one page's content
IsBordereau(content) ==
    LET matches == CountTok(content, "K")
        has_table == CountTok(content, "|") > PipeLimit \/ HasNumberPair(content)
    IN  matches >= 2 \/ (matches >= 1 /\ has_table)

detect_bordereau_pages(text) ==
    LET hits == SelectSeq(PagePairs(text), LAMBDA pr : IsBordereau(pr.content))
    IN  [i \in 1..Len(hits) |-> hits[i].num]

NoTextDetectedText(p) ==
    <<"[Page", "s">> \o NumToks(p) \o <<":", "s", "No text detected]">>

OcrErrorText(p) ==
    <<"[OCR", "s", "ERROR on page", "s">> \o NumToks(p) \o <<":", "s", "e]">>

\* what the fresh full-page OCR of a page without table can read
FreshTexts == { <<"s">>, <<"y", "n">>, <<"D", "s", "P", "s", "2", "s", "D", "n">> }

\* how the table pipeline can end on one page; text: the words put in the
\* cells, or what the fresh full-page OCR read
TableOutcomes ==
    {[kind |-> k, text |-> <<>>] :
        k \in {"convert_raise", "noimage", "pipeline_raise", "table_empty", "no_table_raise"}}
    \cup {[kind |-> "table_words", text |-> w] : w \in CellWords}
    \cup {[kind |-> "no_table", text |-> r] : r \in FreshTexts}

\* ocr_page_with_table_detection, for the outcomes on which it returns
ocr_page_with_table_detection(o) ==
    CASE o.kind \in {"table_words", "table_empty"} -> LatexOf(o.text)
      [] o.kind = "no_table" -> Strip(o.text)
      [] OTHER -> <<>>

\* the entry ocr_pages_with_table_extraction records for page p
PageEntry(p, o) ==
    CASE o.kind = "noimage" -> ConversionFailedText(p)
      [] o.kind \in {"convert_raise", "pipeline_raise"} -> OcrErrorText(p)
      [] OTHER -> LET text == ocr_page_with_table_detection(o)
                  IN  IF text # <<>> THEN text ELSE NoTextDetectedText(p)

\* {p: "[OCR FAILED: e]" for p in page_numbers}
RECURSIVE AllReadFailed(_)
AllReadFailed(page_numbers) ==
    IF page_numbers = <<>> THEN <<>>
    ELSE DictSet(AllReadFailed(SubSeq(page_numbers, 1, Len(page_numbers) - 1)),
                 page_numbers[Len(page_numbers)], DocFailedText)

\* "[OCR" in table_text or "[Page" in table_text
LooksFailed(table_text) ==
    Contains(table_text, <<"[OCR">>) \/ Contains(table_text, <<"[Page">>)

\* re.match of  (---\s*Page\s+{page_num}\s*---\n)  at index i of s
OwnMarker(s, i, page_num) ==
    LET num == NumToks(page_num)
        j1 == SkipWs(s, i + 1)
        j2 == SkipWs(s, j1 + 1)
        j3 == j2 + Len(num)
        j4 == SkipWs(s, j3)
        ok == /\ TokAt(s, i) = "D"
              /\ TokAt(s, j1) = "P"
              /\ j2 > j1 + 1
              /\ j3 - 1 <= Len(s)
              /\ SubSeq(s, j2, j3 - 1) = num
              /\ TokAt(s, j4) = "D"
              /\ TokAt(s, j4 + 1) = "n"
    IN  [ok |-> ok, end |-> IF ok THEN j4 + 2 ELSE i]

\* where the lazy (.*?) started at index j stops: the first index at which
\* the lookahead  (?=---\s*Page\s+\d+\s*---|$)  holds; $ holds at the end
\* of s and before a newline that ends s
LazyStop(s, j) ==
    IF j > Len(s) THEN j
    ELSE LET stops == {k \in j..(Len(s) + 1) :
                          \/ k > Len(s)
                          \/ MatchMarker(s, k).ok
                          \/ (k = Len(s) /\ s[k] = "n")}
         IN  CHOOSE k \in stops : \A x \in stops : k <= x

\* re.sub(pattern, replace_page, s, flags=re.DOTALL), scanning from index i
\* with the text not yet copied starting at index c
RECURSIVE ReSubFrom(_, _, _, _, _)
ReSubFrom(s, page_num, txt, c, i) ==
    LET hits == {j \in i..Len(s) : OwnMarker(s, j, page_num).ok}
    IN  IF hits = {} THEN SubSeq(s, c, Len(s))
        ELSE LET first == CHOOSE j \in hits : \A k \in hits : j <= k
                 m == OwnMarker(s, first, page_num)
                 stop == LazyStop(s, m.end)
             IN  SubSeq(s, c, m.end - 1) \o txt \o <<"n", "n">>
                 \o ReSubFrom(s, page_num, txt, stop, stop)

ReplacePage(s, page_num, txt) == ReSubFrom(s, page_num, txt, 1, 1)

\* the page texts of the document handed to the merge
OrigTexts ==
    { <<"x">>, <<"K">>, <<"K", "s", "K">>, <<"K", "s", "1", "s", "2">>,
      <<"K", "1", "2">>, <<"1", "n", "2">>,
      <<"K", "|", "|", "|", "|", "|">>, <<"K", "|", "|", "|", "|", "|", "|">> }

\* force_pages: none, one page, or every page
ForceChoices == {<<>>} \cup {<<p>> : p \in Pages} \cup {[i \in Pages |-> i]}

MergeInit ==
    /\ total_pages \in 1..MaxPages
    /\ batch_size = 5
    /\ max_workers \in {optimal_workers(c) : c \in CpuCounts}
    /\ pc = "idle"
    /\ profiles = <<>>
    /\ all_results = <<>>
    /\ dpi_groups = <<>>
    /\ gi = 1
    /\ batch_start = 1
    /\ ci = 1
    /\ page_args = <<>>
    /\ task = [p \in Pages |-> "none"]
    /\ fut = [p \in Pages |-> NoFuture]
    /\ log = [p \in Pages |-> NoLog]
    /\ sorted_pages = <<>>
    /\ full_text = <<>>
    /\ page_count = 0
    /\ m_pc = "select"
    /\ \E texts \in [Pages -> OrigTexts] :
          original_text = AssembleText([i \in Pages |-> [k |-> i, v |-> texts[i]]],
                                       [i \in Pages |-> i])
    /\ force_pages \in ForceChoices
    /\ bordereau_pages = <<>>
    /\ table_results = <<>>
    /\ mi = 1
    /\ m_kind = [p \in Pages |-> "none"]
    /\ result_text = <<>>
    /\ GridIdle
    /\ ClassifyIdle
    /\ BuilderIdle
    /\ OthersIdle

\* reocr_bordereau_pages up to the call of the table pipeline
SelectPages ==
    /\ m_pc = "select"
    /\ bordereau_pages' = IF force_pages # <<>> THEN force_pages
                          ELSE detect_bordereau_pages(original_text)
    /\ IF bordereau_pages' = <<>>
       THEN m_pc' = "done" /\ result_text' = original_text
       ELSE m_pc' = "ocr" /\ UNCHANGED result_text
    /\ mi' = 1
    /\ UNCHANGED <<original_text, force_pages, table_results, m_kind>>
    /\ UNCHANGED outside_merge

\* ocr_pages_with_table_extraction cannot read the file: the outer except
ReadFails ==
    /\ m_pc = "ocr"
    /\ mi = 1
    /\ table_results' = AllReadFailed(bordereau_pages)
    /\ m_kind' = [p \in Pages |->
                    IF DictHas(table_results', p) THEN "read_raise" ELSE m_kind[p]]
    /\ m_pc' = "merge"
    /\ result_text' = original_text
    /\ UNCHANGED <<original_text, force_pages, bordereau_pages, mi>>
    /\ UNCHANGED outside_merge

\* one turn of the loop over page_numbers in ocr_pages_with_table_extraction
OcrTablePage ==
    /\ m_pc = "ocr"
    /\ LET page_num == bordereau_pages[mi]
       IN  \E o \in TableOutcomes :
              /\ table_results' = DictSet(table_results, page_num, PageEntry(page_num, o))
              /\ m_kind' = [m_kind EXCEPT ![page_num] = o.kind]
    /\ IF mi < Len(bordereau_pages)
       THEN mi' = mi + 1 /\ UNCHANGED <<m_pc, result_text>>
       ELSE mi' = 1 /\ m_pc' = "merge" /\ result_text' = original_text
    /\ UNCHANGED <<original_text, force_pages, bordereau_pages>>
    /\ UNCHANGED outside_merge

\* one turn of the loop over table_results.items() in reocr_bordereau_pages
MergePage ==
    /\ m_pc = "merge"
    /\ LET page_num == table_results[mi].k
           table_text == table_results[mi].v
       IN  result_text' = IF LooksFailed(table_text) THEN result_text
                          ELSE ReplacePage(result_text, page_num, table_text)
    /\ IF mi < Len(table_results)
       THEN mi' = mi + 1 /\ UNCHANGED m_pc
       ELSE m_pc' = "done" /\ UNCHANGED mi
    /\ UNCHANGED <<original_text, force_pages, bordereau_pages, table_results, m_kind>>
    /\ UNCHANGED outside_merge

MergeNext ==
    \/ SelectPages
    \/ ReadFails
    \/ OcrTablePage
    \/ MergePage

MergeSpec == MergeInit /\ [][MergeNext]_vars

(***************************************************************************)
(* The table pipeline on one page image: _detect_lines,                    *)
(* _cluster_positions, _build_virtual_grid, detect_grid and                *)
(* process_page_table (table_ocr.py).  A page image is given by the rows   *)
(* and the columns on which the line projections pass their threshold.     *)
(***************************************************************************)
\* most lines of one direction on a page image
MaxLines == 3

\* min_gap of _cluster_positions
MinGap == 8

\* "Skip tiny slivers"
SliverSize == 8

\* pixel rows (columns) a line can show on: 0 and 8 fall in one cluster,
\* the others are lines of their own
PixelRows == {0, 8} \cup {17 * k : k \in 1..(MaxLines - 1)}

\* the scheduler is not in use
SchedIdle ==
    /\ total_pages = 0
    /\ batch_size = 5
    /\ max_workers \in {optimal_workers(c) : c \in CpuCounts}
    /\ pc = "idle"
    /\ profiles = <<>>
    /\ all_results = <<>>
    /\ dpi_groups = <<>>
    /\ gi = 1
    /\ batch_start = 1
    /\ ci = 1
    /\ page_args = <<>>
    /\ task = <<>>
    /\ fut = <<>>
    /\ log = <<>>
    /\ sorted_pages = <<>>
    /\ full_text = <<>>
    /\ page_count = 0

\* np.where(proj > threshold)[0]: the indices in increasing order
RECURSIVE SortedSeq(_)
SortedSeq(S) ==
    IF S = {} THEN <<>>
    ELSE LET m == CHOOSE x \in S : \A y \in S : x <= y
         IN  <<m>> \o SortedSeq(S \ {m})

\* the clusters _cluster_positions builds, scanning positions from index i
RECURSIVE ClustersFrom(_, _, _)
ClustersFrom(positions, i, clusters) ==
    IF i > Len(positions) THEN clusters
    ELSE LET last == clusters[Len(clusters)]
         IN  IF positions[i] - last[Len(last)] <= MinGap
             THEN ClustersFrom(positions, i + 1,
                               [clusters EXCEPT ![Len(clusters)] = Append(last, positions[i])])
             ELSE ClustersFrom(positions, i + 1, Append(clusters, <<positions[i]>>))

\* int(np.median(c)) of a sorted cluster
Median(c) ==
    IF Len(c) % 2 = 1 THEN c[(Len(c) + 1) \div 2]
    ELSE (c[Len(c) \div 2] + c[Len(c) \div 2 + 1]) \div 2

cluster_positions(positions) ==
    IF Len(positions) = 0 THEN <<>>
    ELSE LET clusters == ClustersFrom(positions, 2, << <<positions[1]>> >>)
         IN  [k \in 1..Len(clusters) |-> Median(clusters[k])]

\* GridCell(row=r_idx, col=c_idx, x=x1, y=y1, w=x2 - x1, h=y2 - y1), no word yet
GridCell(r_idx, c_idx, h_pos, v_pos) ==
    [row |-> r_idx, col |-> c_idx,
     x |-> v_pos[c_idx + 1], y |-> h_pos[r_idx + 1],
     w |-> v_pos[c_idx + 2] - v_pos[c_idx + 1], h |-> h_pos[r_idx + 2] - h_pos[r_idx + 1],
     words |-> <<>>]

\* the cells between consecutive lines, row by row, slivers skipped; rows
\* and columns count from 0
build_virtual_grid(h_pos, v_pos) ==
    IF Len(h_pos) < 2 \/ Len(v_pos) < 2 THEN <<>>
    ELSE LET n_c == Len(v_pos) - 1
             all == [k \in 1..((Len(h_pos) - 1) * n_c) |->
                        GridCell((k - 1) \div n_c, (k - 1) % n_c, h_pos, v_pos)]
         IN  SelectSeq(all, LAMBDA c : ~ (c.h < SliverSize \/ c.w < SliverSize))

\* words a page may hold: WordBox(text, x, y, w, h)
WordBoxes ==
    { [text |-> "a", x |-> 9,  y |-> 9,  w |-> 2, h |-> 3],
      [text |-> "&", x |-> 19, y |-> 9,  w |-> 2, h |-> 2],
      [text |-> "b", x |-> 16, y |-> 9,  w |-> 3, h |-> 2],
      [text |-> "a", x |-> 44, y |-> 29, w |-> 2, h |-> 2],
      [text |-> "b", x |-> 99, y |-> 99, w |-> 2, h |-> 2],
      [text |-> "&", x |-> 1,  y |-> 9,  w |-> 2, h |-> 2] }

\* words extract_word_boxes may return for one page
MaxWords == 2

WordLists == UNION {[1..n -> WordBoxes] : n \in 0..MaxWords}

\* _word_center
word_center(wb) == [cx |-> wb.x + wb.w \div 2, cy |-> wb.y + wb.h \div 2]

Abs(n) == IF n < 0 THEN 0 - n ELSE n

\* the containment test of assign_words_to_cells
Inside(cell, c) ==
    /\ cell.x <= c.cx /\ c.cx <= cell.x + cell.w
    /\ cell.y <= c.cy /\ c.cy <= cell.y + cell.h

\* the first loop: the index of the first cell containing the centre, 0 if none
FirstInside(grid_cells, c) ==
    IF \E i \in 1..Len(grid_cells) : Inside(grid_cells[i], c)
    THEN CHOOSE i \in 1..Len(grid_cells) :
            /\ Inside(grid_cells[i], c)
            /\ \A j \in 1..(i - 1) : ~Inside(grid_cells[j], c)
    ELSE 0

\* abs(cx - cell_cx) + abs(cy - cell_cy)
CentreDist(cell, c) ==
    Abs(c.cx - (cell.x + cell.w \div 2)) + Abs(c.cy - (cell.y + cell.h \div 2))

\* variant: no bound on the distance
Mut_WithinReach(dist, cell) == TRUE

\* dist < max_dist, max_dist = (cell.w + cell.h) * 0.5
WithinReach(dist, cell) == 2 * dist < cell.w + cell.h

\* the fallback loop from cell i on: best is the index kept so far (0: None)
RECURSIVE NearestFrom(_, _, _, _, _)
NearestFrom(grid_cells, c, i, best, best_dist) ==
    IF i > Len(grid_cells) THEN best
    ELSE LET dist == CentreDist(grid_cells[i], c)
         IN  IF (best = 0 \/ dist < best_dist) /\ WithinReach(dist, grid_cells[i])
             THEN NearestFrom(grid_cells, c, i + 1, i, dist)
             ELSE NearestFrom(grid_cells, c, i + 1, best, best_dist)

\* best_cell for a word, as an index in the cell list (0: None)
BestCell(grid_cells, wb) ==
    LET c == word_center(wb)
    IN  IF FirstInside(grid_cells, c) # 0 THEN FirstInside(grid_cells, c)
        ELSE NearestFrom(grid_cells, c, 1, 0, 0)

\* variant: the word goes to every cell containing its centre
Mut_Targets(grid_cells, wb) ==
    {i \in 1..Len(grid_cells) : Inside(grid_cells[i], word_center(wb))}

\* variant: the word goes to no cell
Mut_TargetsNone(grid_cells, wb) == {}

\* the cells "best_cell.words.append(wb.text)" runs on for a word
Targets(grid_cells, wb) ==
    IF BestCell(grid_cells, wb) = 0 THEN {} ELSE {BestCell(grid_cells, wb)}

\* assign_words_to_cells from word k on
RECURSIVE AssignFrom(_, _, _)
AssignFrom(grid_cells, words, k) ==
    IF k > Len(words) THEN grid_cells
    ELSE AssignFrom([i \in 1..Len(grid_cells) |->
                        IF i \in Targets(grid_cells, words[k])
                        THEN [grid_cells[i] EXCEPT !.words = Append(@, words[k].text)]
                        ELSE grid_cells[i]],
                    words, k + 1)

assign_words_to_cells(grid_cells, words) == AssignFrom(grid_cells, words, 1)

\* variant: the number of rows that have a cell, less one
Mut_MaxRow(grid_cells) ==
    Cardinality({grid_cells[i].row : i \in 1..Len(grid_cells)}) - 1

\* max(c.row for c in cells), max(c.col for c in cells)
MaxRow(grid_cells) ==
    CHOOSE r \in {grid_cells[i].row : i \in 1..Len(grid_cells)} :
        \A i \in 1..Len(grid_cells) : grid_cells[i].row <= r
MaxCol(grid_cells) ==
    CHOOSE k \in {grid_cells[i].col : i \in 1..Len(grid_cells)} :
        \A i \in 1..Len(grid_cells) : grid_cells[i].col <= k

\* variant: the ampersand of a word is left as it is
Mut_escape_latex(word) == word

\* _escape_latex on a word: "&" becomes "\&"
escape_latex(word) == IF word = "&" THEN "\\&" ELSE word

\* _escape_latex(cell.text), cell.text being " ".join(cell.words)
RECURSIVE CellText(_)
CellText(words) ==
    IF Len(words) = 0 THEN <<>>
    ELSE IF Len(words) = 1 THEN <<escape_latex(words[1])>>
    ELSE <<escape_latex(words[1]), "s">> \o CellText(Tail(words))

\* grid[r][k] after the fill loop: the text of the last cell at (r, k), or ""
FieldAt(grid_cells, r, k) ==
    LET at == {i \in 1..Len(grid_cells) : grid_cells[i].row = r /\ grid_cells[i].col = k}
    IN  IF at = {} THEN <<>>
        ELSE CellText(grid_cells[CHOOSE i \in at : \A j \in at : j <= i].words)

\* " & ".join(row) + " \\"
RECURSIVE JoinFields(_)
JoinFields(fields) ==
    IF Len(fields) = 0 THEN <<>>
    ELSE IF Len(fields) = 1 THEN fields[1]
    ELSE fields[1] \o <<"s", "&", "s">> \o JoinFields(Tail(fields))

\* cells_to_latex: the counts of the header line and the row lines
cells_to_latex(grid_cells) ==
    IF Len(grid_cells) = 0 THEN [n_rows |-> 0, n_cols |-> 0, rows |-> <<>>]
    ELSE LET n_rows == MaxRow(grid_cells) + 1
             n_cols == MaxCol(grid_cells) + 1
         IN  [n_rows |-> n_rows, n_cols |-> n_cols,
              rows |-> [r \in 1..n_rows |->
                          JoinFields([k \in 1..n_cols |-> FieldAt(grid_cells, r - 1, k - 1)])
                            \o <<"s", "\\\\">>]]

NoResult == [kind |-> "pending", rows |-> 0, cols |-> 0]

NoLatex == [n_rows |-> 0, n_cols |-> 0, rows |-> <<>>]

GridInit ==
    /\ SchedIdle
    /\ MergeIdle
    /\ ClassifyIdle
    /\ BuilderIdle
    /\ OthersIdle
    /\ g_pc = "start"
    /\ raw_h \in SUBSET PixelRows
    /\ raw_v \in SUBSET PixelRows
    /\ h_positions = <<>>
    /\ v_positions = <<>>
    /\ cells = <<>>
    /\ g_words = <<>>
    /\ g_latex = NoLatex
    /\ g_calls = 0
    /\ g_result = NoResult

\* variant: process_page_table goes on without cells
Mut_NoCells(grid_cells) == FALSE

\* "if not cells: return None"
NoCells(grid_cells) == grid_cells = <<>>

\* the grid cells of the given line positions and "if not cells: return None"
GridBuilt(h_pos, v_pos) ==
    /\ cells' = build_virtual_grid(h_pos, v_pos)
    /\ IF NoCells(cells')
       THEN g_pc' = "done" /\ g_result' = [NoResult EXCEPT !.kind = "none"]
       ELSE g_pc' = "words" /\ UNCHANGED g_result

\* Phase 1: detect_grid (line detection, clustering, virtual grid) and the
\* test on its cells
DetectGrid ==
    /\ g_pc = "start"
    /\ \/ \* the image conversion or the morphology raises
          /\ g_result' = [NoResult EXCEPT !.kind = "detect_raise"]
          /\ g_pc' = "done"
          /\ UNCHANGED <<h_positions, v_positions, cells>>
       \/ /\ h_positions' = cluster_positions(SortedSeq(raw_h))
          /\ v_positions' = cluster_positions(SortedSeq(raw_v))
          /\ GridBuilt(h_positions', v_positions')
    /\ UNCHANGED <<raw_h, raw_v, g_words, g_latex, g_calls>>
    /\ UNCHANGED outside_grid

\* _build_virtual_grid on line positions already known, and the test on its
\* cells
BuildGrid ==
    /\ g_pc = "grid"
    /\ GridBuilt(h_positions, v_positions)
    /\ UNCHANGED <<raw_h, raw_v, h_positions, v_positions, g_words, g_latex, g_calls>>
    /\ UNCHANGED outside_grid

\* Phase 2: extract_word_boxes runs the engine once; its exception is
\* caught there (no word returned), reading its output can raise
ExtractWords ==
    /\ g_pc = "words"
    /\ g_calls' = g_calls + 1
    /\ \/ \E words \in WordLists :
            /\ g_words' = words
            /\ g_pc' = "serialize"
            /\ UNCHANGED g_result
       \/ /\ g_pc' = "done"
          /\ g_result' = [NoResult EXCEPT !.kind = "parse_raise"]
          /\ UNCHANGED g_words
    /\ UNCHANGED <<raw_h, raw_v, h_positions, v_positions, cells, g_latex>>
    /\ UNCHANGED outside_grid

\* Phases 3 and 4 and the DetectedTable returned
Serialize ==
    /\ g_pc = "serialize"
    /\ cells' = assign_words_to_cells(cells, g_words)
    /\ g_latex' = cells_to_latex(cells')
    /\ g_result' = [kind |-> "table", rows |-> MaxRow(cells') + 1, cols |-> MaxCol(cells') + 1]
    /\ g_pc' = "done"
    /\ UNCHANGED <<raw_h, raw_v, h_positions, v_positions, g_words, g_calls>>
    /\ UNCHANGED outside_grid

GridNext ==
    \/ DetectGrid
    \/ ExtractWords
    \/ Serialize

GridSpec == GridInit /\ [][GridNext]_vars

\* _build_virtual_grid and the phases after it on line positions of any
\* spacing: Positions has two lines closer than a sliver
Positions == {0, 5, 20, 40}

CellInit ==
    /\ SchedIdle
    /\ MergeIdle
    /\ ClassifyIdle
    /\ BuilderIdle
    /\ OthersIdle
    /\ g_pc = "grid"
    /\ raw_h = {}
    /\ raw_v = {}
    /\ h_positions \in {SortedSeq(S) : S \in SUBSET Positions}
    /\ v_positions \in {SortedSeq(S) : S \in SUBSET Positions}
    /\ cells = <<>>
    /\ g_words = <<>>
    /\ g_latex = NoLatex
    /\ g_calls = 0
    /\ g_result = NoResult

CellNext ==
    \/ BuildGrid
    \/ ExtractWords
    \/ Serialize

CellSpec == CellInit /\ [][CellNext]_vars

(***************************************************************************)
(* The page classifier, _classify_page_complexity (tesseract_ocr.py).      *)
(* A thumbnail is given by whether its bytes decode and by its three       *)
(* ratios, in thousandths: h (horizontal lines), e (edges), t (text).      *)
(***************************************************************************)
\* calls of the classifier in one run of the model
MaxCalls == 2

\* h_line_ratio > 0.005, edge_ratio > 0.08 : complex
HLineHigh == 5
EdgeHigh == 80

\* h_line_ratio > 0.002, edge_ratio > 0.06 : medium
HLineModerate == 2
EdgeModerate == 60

\* text_ratio < 0.02 : image
TextLow == 20

\* thumbnail bytes that do not decode
BadThumb == [ok |-> FALSE, h |-> 0, e |-> 0, t |-> 0]

\* thumbnails on both sides of every threshold
Thumbnails ==
    {BadThumb} \cup
    [ok : {TRUE},
     h : {HLineModerate, HLineHigh, HLineHigh + 1},
     e : {EdgeModerate, EdgeHigh, EdgeHigh + 1},
     t : {TextLow - 1, TextLow}]

\* "return PageType.MEDIUM_TABLE  # safe default"
ClassifierDefault == "medium"

\* variant: the class depends on how many calls were made before
Mut_classify_page_complexity(img_bytes) ==
    IF Len(c_hist) % 2 = 0 THEN "simple" ELSE "complex"

\* variant: the medium test comes before the complex test
Mut_RuleOrder(img_bytes) ==
    IF ~img_bytes.ok THEN ClassifierDefault
    ELSE IF img_bytes.h > HLineModerate \/ img_bytes.e > EdgeModerate THEN "medium"
    ELSE IF img_bytes.h > HLineHigh /\ img_bytes.e > EdgeHigh THEN "complex"
    ELSE IF img_bytes.t < TextLow THEN "image"
    ELSE "simple"

\* the class returned for a thumbnail: the three measures against their
\* thresholds, in the order of the if-chain
classify_page_complexity(img_bytes) ==
    IF ~img_bytes.ok THEN ClassifierDefault
    ELSE IF img_bytes.h > HLineHigh /\ img_bytes.e > EdgeHigh THEN "complex"
    ELSE IF img_bytes.h > HLineModerate \/ img_bytes.e > EdgeModerate THEN "medium"
    ELSE IF img_bytes.t < TextLow THEN "image"
    ELSE "simple"

ClassifyInit ==
    /\ SchedIdle
    /\ MergeIdle
    /\ GridIdle
    /\ BuilderIdle
    /\ OthersIdle
    /\ c_hist = <<>>

\* one call of the classifier
Classify ==
    /\ Len(c_hist) < MaxCalls
    /\ \E img_bytes \in Thumbnails :
          c_hist' = Append(c_hist, [img |-> img_bytes,
                                    class |-> classify_page_complexity(img_bytes)])
    /\ UNCHANGED outside_classifier

ClassifyNext == Classify

ClassifySpec == ClassifyInit /\ [][ClassifyNext]_vars

(***************************************************************************)
(* The page plan of larger documents: build_page_profiles, the time        *)
(* estimate and fast mode, then for each page the parameters its two OCR   *)
(* attempts would run with.  Documents here are large enough for the       *)
(* estimate to pass its ceiling.                                           *)
(***************************************************************************)
MaxDocPages == 8

\* the classes of n thumbnails in two runs: `first' of class a, then b
TwoRuns(n, first, a, b) == [i \in 1..n |-> IF i <= first THEN a ELSE b]

\* "total_pages = 50  # cap": the page count taken when the query fails
PageCap == 50

\* the page count build_page_profiles works with
CountedPages == IF doc_readable THEN total_pages ELSE PageCap

\* a readable document of up to MaxDocPages pages, or one whose page-count
\* query fails (its pages are then those the cap stands for)
ProfileInit ==
    /\ doc_readable \in BOOLEAN
    /\ total_pages \in (IF doc_readable THEN 1..MaxDocPages ELSE {PageCap})
    /\ batch_size = 5
    /\ max_workers \in {optimal_workers(c) : c \in CpuCounts}
    /\ pc = "p_start"
    /\ profiles = <<>>
    /\ all_results = <<>>
    /\ dpi_groups = <<>>
    /\ gi = 1
    /\ batch_start = 1
    /\ ci = 1
    /\ page_args = <<>>
    /\ task = [p \in Pages |-> "none"]
    /\ fut = [p \in Pages |-> NoFuture]
    /\ log = [p \in Pages |-> NoLog]
    /\ sorted_pages = <<>>
    /\ full_text = <<>>
    /\ page_count = 0
    /\ MergeIdle
    /\ GridIdle
    /\ ClassifyIdle
    /\ OthersIdle
    /\ built = [state |-> "none", profiles |-> <<>>]

\* build_page_profiles; the thumbnail conversion may return fewer images
\* than the document has pages, and only those get a profile
BuildProfiles ==
    /\ pc = "p_start"
    /\ \E prescan_ok \in BOOLEAN, a \in Thumbnails, b \in Thumbnails,
          thumbs \in (IF doc_readable THEN 0..total_pages ELSE {0}) :
         \E first \in 0..thumbs :
            profiles' = build_page_profiles(CountedPages, prescan_ok,
                                            TwoRuns(thumbs, first,
                                                    classify_page_complexity(a),
                                                    classify_page_complexity(b)))
    /\ built' = [state |-> "returned", profiles |-> profiles']
    /\ pc' = "p_estimate"
    /\ UNCHANGED <<total_pages, batch_size, max_workers, all_results, dpi_groups, gi,
                   batch_start, ci, page_args, task, fut, log, sorted_pages, full_text,
                   page_count>>
    /\ UNCHANGED <<mvars, gvars, cvars, xvars, doc_readable>>

\* the time estimate, fast mode and the grouping by DPI
EstimateAndGroup ==
    /\ pc = "p_estimate"
    /\ profiles' = ApplyFastMode(profiles)
    /\ dpi_groups' = DpiGroups(profiles')
    /\ ci' = 1
    /\ pc' = IF profiles' = <<>> THEN "p_done" ELSE "p_plan"
    /\ UNCHANGED <<total_pages, batch_size, max_workers, all_results, gi, batch_start,
                   page_args, task, fut, log, sorted_pages, full_text, page_count>>
    /\ UNCHANGED outside_sched

\* the DPI of the group a profile was put in
GroupDpiOf(profile) ==
    dpi_groups[CHOOSE g \in 1..Len(dpi_groups) :
                 \E m \in 1..Len(dpi_groups[g].members) :
                    dpi_groups[g].members[m].page_num = profile.page_num].dpi

\* the parameters of the two attempts of the next page: attempt 1 as
\* _ocr_single_page_adaptive is called, attempt 2 as _ocr_fallback runs
PlanPage ==
    /\ pc = "p_plan"
    /\ LET profile == profiles[ci]
           arg == PageArg(profile, GroupDpiOf(profile))
       IN  log' = [log EXCEPT ![profile.page_num] =
                     [@ EXCEPT !.attempts = 2,
                               !.p1 = Attempt1Params(arg),
                               !.p2 = FallbackParams(Attempt1Params(arg))]]
    /\ IF ci < Len(profiles)
       THEN ci' = ci + 1 /\ UNCHANGED pc
       ELSE pc' = "p_done" /\ UNCHANGED ci
    /\ UNCHANGED <<total_pages, batch_size, max_workers, profiles, all_results, dpi_groups, gi,
                   batch_start, page_args, task, fut, sorted_pages, full_text, page_count>>
    /\ UNCHANGED outside_sched

ProfileNext ==
    \/ BuildProfiles
    \/ EstimateAndGroup
    \/ PlanPage

ProfileSpec == ProfileInit /\ [][ProfileNext]_vars


(***************************************************************************)
(* The Azure re-processing of price-schedule pages:                        *)
(* reocr_bordereau_pages_azure (azure_doc_intelligence.py)                 *)
(***************************************************************************)
\* pages of the longest document handed to the Azure re-processing
MaxAzurePages == 11

\* "Take the last 10 pages (or all if fewer)"
LastPages == 10

\* MAX_PAGES
AzureMaxPages == 15

\* the highest page number the detection model is seen to answer with
MaxAiPage == 4

\* an OCR'd document of n pages; page k, if any, carries two keywords
AzureDoc(n, k) ==
    IF n = 0 THEN <<"x">>
    ELSE AssembleText([i \in 1..n |->
                          [k |-> i, v |-> IF i = k THEN <<"K", "s", "K">> ELSE <<"x">>]],
                      [i \in 1..n |-> i])

AzureTexts == {AzureDoc(n, k) : n \in 0..MaxAzurePages, k \in {0, 1}}

\* force_pages: none, one page, two pages, more pages than MAX_PAGES
AzureForceChoices ==
    { <<>>, <<1>>, <<2, 3>>, [i \in 1..(AzureMaxPages + 1) |-> i] }

\* range(lo, hi + 1)
RangeSeq(lo, hi) == [i \in 1..(hi - lo + 1) |-> lo + i - 1]

\* sorted(...), the split into runs of consecutive numbers, max(groups, key=len):
\* the first of the longest runs
BestGroup(S) ==
    IF S = {} THEN <<>>
    ELSE LET runs == {r \in S \X S :
                        /\ r[1] <= r[2]
                        /\ \A x \in r[1]..r[2] : x \in S
                        /\ (r[1] - 1) \notin S
                        /\ (r[2] + 1) \notin S}
             best == CHOOSE r \in runs :
                        \A q \in runs :
                           \/ q[2] - q[1] < r[2] - r[1]
                           \/ q[2] - q[1] = r[2] - r[1] /\ r[1] <= q[1]
         IN  RangeSeq(best[1], best[2])

\* what _ai_detect_bordereau_pages can return for a text: the keyword
\* detection when there is no API key or the call raises, nothing when the
\* text has no page, otherwise the best run of the model's answer
ai_detect_bordereau_pages(ocr_text) ==
    {detect_bordereau_pages(ocr_text)}
      \cup (IF PagePairs(ocr_text) = <<>> THEN {<<>>}
            ELSE {BestGroup(S) : S \in SUBSET (1..MaxAiPage)})

\* the highest page number of the text's markers
MaxMarker(text) ==
    LET nums == {PagePairs(text)[k].num : k \in 1..Len(PagePairs(text))}
    IN  CHOOSE m \in nums : \A x \in nums : x <= m

\* "FALLBACK: If AI found no bordereau pages, force the last pages"
LastPagesOf(text) ==
    LET total == MaxMarker(text)
        force_start == IF total - (LastPages - 1) > 1 THEN total - (LastPages - 1) ELSE 1
    IN  RangeSeq(force_start, total)

\* variant: the fallback fires whatever was forced or detected
Mut_FallbackFires(chosen) == TRUE

\* "if not bordereau_pages": the condition of the last-pages fallback
FallbackFires(chosen) == chosen = <<>>

\* bordereau_pages[:MAX_PAGES]
LimitPages(pages) ==
    IF Len(pages) > AzureMaxPages THEN SubSeq(pages, 1, AzureMaxPages) ELSE pages

\* texts Azure may return for a page
AzureTables == { <<"s">>, <<"y", "|", "y">> }

AzureInit ==
    /\ a_pc = "select"
    /\ a_text \in AzureTexts
    /\ a_force \in AzureForceChoices
    /\ a_detected = [called |-> FALSE, pages |-> <<>>]
    /\ a_pages = <<>>
    /\ a_sent = [called |-> FALSE, pages |-> <<>>]
    /\ azure_results = <<>>
    /\ a_result = <<>>
    /\ SchedIdle
    /\ MergeIdle
    /\ GridIdle
    /\ ClassifyIdle
    /\ BuilderIdle
    /\ PaddleIdle
    /\ WebIdle

\* reocr_bordereau_pages_azure up to the call of analyze_bordereau_pages:
\* forced or detected pages, the last-pages fallback, the page limit
AzureSelect ==
    /\ a_pc = "select"
    /\ \E found \in ai_detect_bordereau_pages(a_text) :
         LET chosen == IF a_force # <<>> THEN a_force ELSE found
             no_marker == PagePairs(a_text) = <<>>
         IN  /\ a_detected' = IF a_force # <<>> THEN [called |-> FALSE, pages |-> <<>>]
                               ELSE [called |-> TRUE, pages |-> found]
             /\ IF FallbackFires(chosen) /\ no_marker
                THEN /\ a_pages' = <<>>
                     /\ a_result' = a_text
                     /\ a_pc' = "done"
                ELSE /\ a_pages' = LimitPages(IF FallbackFires(chosen)
                                              THEN LastPagesOf(a_text)
                                              ELSE chosen)
                     /\ a_pc' = "analyze"
                     /\ UNCHANGED a_result
    /\ UNCHANGED <<a_text, a_force, a_sent, azure_results>>
    /\ UNCHANGED outside_azure

\* analyze_bordereau_pages: no result at all (not configured, extraction or
\* analysis raised, nothing found), or text for the first or for every page
AzureAnalyze ==
    /\ a_pc = "analyze"
    /\ a_sent' = [called |-> TRUE, pages |-> a_pages]
    /\ \E outcome \in {"none", "first", "all"}, t \in AzureTables :
         azure_results' =
            CASE outcome = "none" -> <<>>
              [] outcome = "first" -> <<[k |-> a_pages[1], v |-> t]>>
              [] OTHER -> [i \in 1..Len(a_pages) |-> [k |-> a_pages[i], v |-> t]]
    /\ IF azure_results' = <<>>
       THEN a_result' = a_text /\ a_pc' = "done"
       ELSE UNCHANGED a_result /\ a_pc' = "merge"
    /\ UNCHANGED <<a_text, a_force, a_detected, a_pages>>
    /\ UNCHANGED outside_azure

\* the loop over azure_results.items(): blank texts skipped, the others
\* spliced in behind the page's marker
RECURSIVE AzureMergeFrom(_, _, _)
AzureMergeFrom(text, results, i) ==
    IF i > Len(results) THEN text
    ELSE LET azure_text == results[i].v
             new_text == IF Strip(azure_text) = <<>> THEN text
                         ELSE ReplacePage(text, results[i].k,
                                          <<"[AZURE_DI_EXTRACTED]", "n">> \o azure_text)
         IN  AzureMergeFrom(new_text, results, i + 1)

AzureMerge ==
    /\ a_pc = "merge"
    /\ a_result' = AzureMergeFrom(a_text, azure_results, 1)
    /\ a_pc' = "done"
    /\ UNCHANGED <<a_text, a_force, a_detected, a_pages, a_sent, azure_results>>
    /\ UNCHANGED outside_azure

AzureNext ==
    \/ AzureSelect
    \/ AzureAnalyze
    \/ AzureMerge

AzureSpec == AzureInit /\ [][AzureNext]_vars


(***************************************************************************)
(* The engine singleton under concurrent callers: each thread calls        *)
(* _initialize_paddle_ocr a few times; a step is one read or write of the  *)
(* module global, one lock operation, or the constructor call.             *)
(***************************************************************************)
\* calls each thread makes
MaxInitCalls == 2

PaddleInit ==
    /\ PaddleIdle
    /\ SchedIdle
    /\ MergeIdle
    /\ GridIdle
    /\ ClassifyIdle
    /\ BuilderIdle
    /\ AzureIdle
    /\ WebIdle

\* a return of the call: the value and the exit taken
Returned(t, val, via) ==
    /\ t_rets' = [t_rets EXCEPT ![t] = @ \cup {[val |-> val, via |-> via]}]
    /\ t_pc' = [t_pc EXCEPT ![t] = "idle"]

\* a thread calls _initialize_paddle_ocr
PaddleCall(t) ==
    /\ t_pc[t] = "idle"
    /\ t_calls[t] < MaxInitCalls
    /\ t_calls' = [t_calls EXCEPT ![t] = @ + 1]
    /\ t_pc' = [t_pc EXCEPT ![t] = "check1"]
    /\ UNCHANGED <<paddle_instance, paddle_lock, t_rets, n_built>>
    /\ UNCHANGED outside_paddle

\* "if _PADDLE_OCR_INSTANCE is not None: return" before the lock
FirstCheck(t) ==
    /\ t_pc[t] = "check1"
    /\ IF paddle_instance # 0
       THEN Returned(t, paddle_instance, "fast")
       ELSE t_pc' = [t_pc EXCEPT ![t] = "acquire"] /\ UNCHANGED t_rets
    /\ UNCHANGED <<paddle_instance, paddle_lock, t_calls, n_built>>
    /\ UNCHANGED outside_paddle

\* "with _PADDLE_OCR_LOCK:" entered
Acquire(t) ==
    /\ t_pc[t] = "acquire"
    /\ paddle_lock = 0
    /\ paddle_lock' = t
    /\ t_pc' = [t_pc EXCEPT ![t] = "check2"]
    /\ UNCHANGED <<paddle_instance, t_calls, t_rets, n_built>>
    /\ UNCHANGED outside_paddle

\* variant: no second look at the global once the lock is held
Mut_SecondCheckHits(inst) == FALSE

\* "if _PADDLE_OCR_INSTANCE is not None" under the lock
SecondCheckHits(inst) == inst # 0

\* the check under the lock; its return leaves the with block
SecondCheck(t) ==
    /\ t_pc[t] = "check2"
    /\ IF SecondCheckHits(paddle_instance)
       THEN /\ Returned(t, paddle_instance, "locked")
            /\ paddle_lock' = 0
       ELSE /\ t_pc' = [t_pc EXCEPT ![t] = "construct"]
            /\ UNCHANGED <<t_rets, paddle_lock>>
    /\ UNCHANGED <<paddle_instance, t_calls, n_built>>
    /\ UNCHANGED outside_paddle

\* the import and PaddleOCR(...): a new engine stored in the global, or an
\* exception, caught, with None returned; the global is left as it was
Construct(t) ==
    /\ t_pc[t] = "construct"
    /\ \/ /\ n_built' = n_built + 1
          /\ paddle_instance' = n_built'
          /\ t_pc' = [t_pc EXCEPT ![t] = "built"]
          /\ UNCHANGED <<t_rets, paddle_lock>>
       \/ /\ Returned(t, 0, "failed")
          /\ paddle_lock' = 0
          /\ UNCHANGED <<paddle_instance, n_built>>
    /\ UNCHANGED t_calls
    /\ UNCHANGED outside_paddle

\* "return _PADDLE_OCR_INSTANCE" after the construction, leaving the with block
ReturnBuilt(t) ==
    /\ t_pc[t] = "built"
    /\ Returned(t, paddle_instance, "built")
    /\ paddle_lock' = 0
    /\ UNCHANGED <<paddle_instance, t_calls, n_built>>
    /\ UNCHANGED outside_paddle

PaddleNext ==
    \/ \E t \in Threads : PaddleCall(t)
    \/ \E t \in Threads : FirstCheck(t)
    \/ \E t \in Threads : Acquire(t)
    \/ \E t \in Threads : SecondCheck(t)
    \/ \E t \in Threads : Construct(t)
    \/ \E t \in Threads : ReturnBuilt(t)

PaddleSpec == PaddleInit /\ [][PaddleNext]_vars

(***************************************************************************)
(* POST /api/scraper/run and the scraper thread (routes.py).  The handler  *)
(* has no await, so the event loop runs each request's handler whole; the  *)
(* scraper threads run beside it.                                          *)
(***************************************************************************)
ScraperInit ==
    /\ SchedIdle
    /\ MergeIdle
    /\ GridIdle
    /\ ClassifyIdle
    /\ BuilderIdle
    /\ AzureIdle
    /\ PaddleIdle
    /\ PipelineIdle
    /\ ScraperIdle

\* "if _scraper_instance and _scraper_instance.progress.is_running"
AlreadyRunning == scraper_instance # 0 /\ is_running

\* run_scraper for request r: the test, the job record, the thread
RunScraper(r) ==
    /\ responses[r] = "none"
    /\ IF AlreadyRunning
       THEN /\ responses' = [responses EXCEPT ![r] = "rejected"]
            /\ UNCHANGED <<job_status, thr_pc>>
       ELSE /\ job_status' = [job_status EXCEPT ![r] = "RUNNING"]
            /\ thr_pc' = [thr_pc EXCEPT ![r] = "started"]
            /\ responses' = [responses EXCEPT ![r] = "started"]
    /\ UNCHANGED <<scraper_instance, is_running>>
    /\ UNCHANGED outside_scraper

\* _run_scraper_async up to "_scraper_instance = TenderScraper(...)"; the
\* flag of the new scraper's progress is whatever TenderScraper makes it
ThreadSetup(j) ==
    /\ thr_pc[j] = "started"
    /\ scraper_instance' = j
    /\ is_running' \in BOOLEAN
    /\ thr_pc' = [thr_pc EXCEPT ![j] = "scraping"]
    /\ UNCHANGED <<responses, job_status>>
    /\ UNCHANGED outside_scraper

\* the scraper at work changes the flag of its progress
ScraperProgress(j) ==
    /\ thr_pc[j] = "scraping"
    /\ scraper_instance = j
    /\ is_running' = ~is_running
    /\ UNCHANGED <<scraper_instance, responses, job_status, thr_pc>>
    /\ UNCHANGED outside_scraper

\* the end of _run_scraper_async: the job is COMPLETED, or FAILED in the
\* except clause (always so when another thread has reset the instance:
\* "_scraper_instance.progress" raises); the finally clause resets the
\* instance
ThreadEnd(j) ==
    /\ thr_pc[j] = "scraping"
    /\ \E st \in (IF scraper_instance = 0 THEN {"FAILED"} ELSE {"COMPLETED", "FAILED"}) :
          job_status' = [job_status EXCEPT ![j] = st]
    /\ scraper_instance' = 0
    /\ is_running' = FALSE
    /\ thr_pc' = [thr_pc EXCEPT ![j] = "done"]
    /\ UNCHANGED responses
    /\ UNCHANGED outside_scraper

ScraperNext ==
    \/ \E r \in Requests : RunScraper(r)
    \/ \E j \in Requests : ThreadSetup(j)
    \/ \E j \in Requests : ScraperProgress(j)
    \/ \E j \in Requests : ThreadEnd(j)

ScraperSpec == ScraperInit /\ [][ScraperNext]_vars

(***************************************************************************)
(* process_tender_documents (pipeline_processor.py) on a ZIP holding       *)
(* ZipFiles, for any three lists the file detector may return              *)
(***************************************************************************)
\* the names the detector may list, in the order it lists them: a PDF, an
\* Excel file, a hidden file, a name that is not in the ZIP
NameOrder == <<"c.pdf", "b.xlsx", ".h", "ghost">>

ZipFiles == {"c.pdf", "b.xlsx", ".h"}

HiddenFiles == {".h"}

ExcelFiles == {"b.xlsx"}

PdfFiles == {"c.pdf"}

FileLists == {SelectSeq(NameOrder, LAMBDA n : n \in S) : S \in SUBSET (ZipFiles \cup {"ghost"})}

\* "{k: files[k] for k in names if k in files}"
FileDict(names) == SelectSeq(names, LAMBDA n : n \in ZipFiles)

\* valid_files of process_documents_concurrent: hidden and temp files out
ValidFiles(names) == SelectSeq(names, LAMBDA n : n \notin HiddenFiles)

\* other_file_dict after Step 5: a merged file is deleted and the file
\* split_merged_file returns, the same one, is added at the end
AfterSplit(names, merged) ==
    SelectSeq(names, LAMBDA n : n \notin merged) \o SelectSeq(names, LAMBDA n : n \in merged)

PipelineInit ==
    /\ SchedIdle
    /\ MergeIdle
    /\ GridIdle
    /\ ClassifyIdle
    /\ BuilderIdle
    /\ AzureIdle
    /\ PaddleIdle
    /\ ScraperIdle
    /\ d_pc = "start"
    /\ bordereau_files \in FileLists
    /\ cps_files \in FileLists
    /\ other_files \in FileLists
    /\ has_callback \in BOOLEAN
    /\ d_queue = <<>>
    /\ all_documents = <<>>
    /\ has_excel_bordereau = FALSE
    /\ ready_calls = <<>>

\* the documents of a group processed so far
DocsOf(group) == SelectSeq(all_documents, LAMBDA d : d.group = group)

\* "[d for d in docs if d.success and d.raw_text]"
Successful(docs) == SelectSeq(docs, LAMBDA d : d.ok)

\* Step 3 begins: process_documents_concurrent on the bordereau files
BeginBordereau ==
    /\ d_pc = "start"
    /\ d_pc' = "bordereau"
    /\ d_queue' = ValidFiles(FileDict(bordereau_files))
    /\ UNCHANGED <<bordereau_files, cps_files, other_files, has_callback, all_documents,
                   has_excel_bordereau, ready_calls>>
    /\ UNCHANGED outside_pipeline

\* one turn of the loop of process_documents_concurrent: the next file is
\* processed, with or without success and text
ProcessDocument ==
    /\ d_pc \in {"bordereau", "cps", "other"}
    /\ d_queue # <<>>
    /\ \E ok \in BOOLEAN :
          all_documents' = Append(all_documents,
                                  [filename |-> Head(d_queue), group |-> d_pc, ok |-> ok,
                                   light_mode |-> d_pc # "bordereau" /\ has_excel_bordereau])
    /\ d_queue' = Tail(d_queue)
    /\ UNCHANGED <<d_pc, bordereau_files, cps_files, other_files, has_callback,
                   has_excel_bordereau, ready_calls>>
    /\ UNCHANGED outside_pipeline

\* variant: the callback is also due after the CPS files when there were
\* bordereau files
Mut_CpsCallbackDue == has_callback /\ Successful(DocsOf("cps")) # <<>>

\* "if not bordereau_files and on_bordereau_ready and cps_docs" and
\* "if successful_cps"
CpsCallbackDue ==
    bordereau_files = <<>> /\ has_callback /\ Successful(DocsOf("cps")) # <<>>

\* a call of on_bordereau_ready: the documents given, and how many documents
\* had been processed by then
ReadyCall(docs) == [docs |-> docs, at |-> Len(all_documents)]

\* the end of Step 3: has_excel_bordereau, the callback, then Step 4 begins
EndBordereau ==
    /\ d_pc = "bordereau"
    /\ d_queue = <<>>
    /\ has_excel_bordereau' =
          (bordereau_files # <<>> /\
           \E i \in 1..Len(all_documents) :
               all_documents[i].ok /\ all_documents[i].filename \in ExcelFiles)
    /\ IF bordereau_files # <<>> /\ has_callback /\ Successful(DocsOf("bordereau")) # <<>>
       THEN ready_calls' = Append(ready_calls, ReadyCall(Successful(DocsOf("bordereau"))))
       ELSE UNCHANGED ready_calls
    /\ d_pc' = "cps"
    /\ d_queue' = ValidFiles(FileDict(cps_files))
    /\ UNCHANGED <<bordereau_files, cps_files, other_files, has_callback, all_documents>>
    /\ UNCHANGED outside_pipeline

\* the end of Step 4: the callback on the CPS documents, Step 5, then Step 6
\* begins
EndCps ==
    /\ d_pc = "cps"
    /\ d_queue = <<>>
    /\ IF CpsCallbackDue
       THEN ready_calls' = Append(ready_calls, ReadyCall(Successful(DocsOf("cps"))))
       ELSE UNCHANGED ready_calls
    /\ d_pc' = "other"
    /\ \E merged \in SUBSET PdfFiles :
          d_queue' = ValidFiles(AfterSplit(FileDict(other_files), merged))
    /\ UNCHANGED <<bordereau_files, cps_files, other_files, has_callback, all_documents,
                   has_excel_bordereau>>
    /\ UNCHANGED outside_pipeline

\* Steps 7 and 8: the documents are returned
EndOther ==
    /\ d_pc = "other"
    /\ d_queue = <<>>
    /\ d_pc' = "done"
    /\ UNCHANGED <<bordereau_files, cps_files, other_files, has_callback, d_queue,
                   all_documents, has_excel_bordereau, ready_calls>>
    /\ UNCHANGED outside_pipeline

PipelineNext ==
    \/ BeginBordereau
    \/ ProcessDocument
    \/ EndBordereau
    \/ EndCps
    \/ EndOther

PipelineSpec == PipelineInit /\ [][PipelineNext]_vars


(***************************************************************************)
(* Claims about the scheduler                                              *)
(***************************************************************************)
\* the page numbers the page markers of a text carry, in text order
MarkerNums(text) == [k \in 1..Len(PagePairs(text)) |-> PagePairs(text)[k].num]

\* p's marker followed by p's recorded text is part of the returned text
InOutput(p) ==
    /\ DictHas(all_results, p)
    /\ Contains(full_text, Marker(p) \o <<"n">> \o DictGet(all_results, p))

\* no engine call is stuck past its timeout
NoTaskHung == \A p \in Pages : task[p] # "hung"

\* C1: when the call has returned (other than with the document-level
\* failure text), the returned text holds exactly one page marker for each
\* page number 1..P of the document, and no other marker.
C1_OneMarkerPerPage ==
    (pc = "done" /\ full_text # DocFailedText) =>
        LET nums == MarkerNums(full_text)
        IN  /\ \A k \in 1..Len(nums) : nums[k] \in 1..total_pages
            /\ \A p \in 1..total_pages :
                 Cardinality({k \in 1..Len(nums) : nums[k] = p}) = 1

ImageOnlyText(p) ==
    <<"[Page", "s">> \o NumToks(p) \o <<":", "s", "image-only, OCR unavailable]">>

\* both attempts of page p raised or timed out
BothAttemptsFailed(p) == log[p].a1 = "fail" /\ log[p].a2 = "fail"

\* C3 as stated: after both attempts failed, the text recorded for the page
\* is "[Page N: image-only, OCR unavailable]".
C3_ImageOnlyPlaceholder ==
    \A p \in Pages :
        (BothAttemptsFailed(p) /\ task[p] = "collected") =>
            DictGet(all_results, p) = ImageOnlyText(p)

\* C3 amended: after both attempts of page N failed or timed out, the page has
\* had exactly two attempts and its task is over (no retry); its future can be
\* collected; the text recorded for it is "[Page N: OCR failed after all
\* attempts]"; and the returned text carries that placeholder under the
\* page's marker.
C3_OcrFailedPlaceholder ==
    \A p \in Pages :
        BothAttemptsFailed(p) =>
            /\ log[p].attempts = 2
            /\ task[p] \in {"finished", "collected"}
            /\ task[p] = "finished" => ENABLED Collect(p)
            /\ task[p] = "collected" =>
                 DictHas(all_results, p) /\ DictGet(all_results, p) = OcrFailedText(p)
            /\ pc = "done" =>
                 Contains(full_text, Marker(p) \o <<"n">> \o OcrFailedText(p))

\* C3 witness: the call returned with a page both attempts failed on.
C3_Witness ==
    /\ pc = "done"
    /\ \E p \in Pages : BothAttemptsFailed(p) /\ log[p].calls = 2

\* C4: no page has more than two attempts nor more than two engine calls,
\* pages flagged for table OCR included.
C4_AtMostTwoEngineCalls ==
    \A p \in Pages : log[p].attempts <= 2 /\ log[p].calls <= 2

\* C5: the call always goes on until it has returned: in every state that is
\* not the returned one, some step of the scheduler or of a worker is
\* possible.
C5_NeverBlocked == pc = "done" \/ ENABLED Next

\* strictly increasing sequence of integers
StrictlyIncreasing(seq) == \A i \in 1..(Len(seq) - 1) : seq[i] < seq[i + 1]

\* C7: whatever order the results were recorded in, the returned text is the
\* pages' parts in strictly increasing page-number order, one part for each
\* recorded page (or, with no page recorded, the document-level failure
\* text).
C7_PagesInIncreasingOrder ==
    pc = "done" =>
        /\ StrictlyIncreasing(sorted_pages)
        /\ {sorted_pages[i] : i \in 1..Len(sorted_pages)} =
           {all_results[i].k : i \in 1..Len(all_results)}
        /\ \/ full_text = DocFailedText /\ all_results = <<>>
           \/ full_text = JoinParts([i \in 1..Len(sorted_pages) |->
                 Marker(sorted_pages[i]) \o <<"n">> \o DictGet(all_results, sorted_pages[i])])

\* C7 witness: the call returned after page 2's OCR result was recorded
\* before page 1's.
C7_Witness ==
    /\ pc = "done"
    /\ Len(all_results) = 2
    /\ all_results[1].k = 2 /\ all_results[2].k = 1
    /\ log[1].a1 = "ok" /\ log[2].a1 = "ok"
    /\ sorted_pages = <<1, 2>>


\* C6: whenever a page's second attempt has been set up, it runs at a
\* resolution and with a time limit no higher than the first attempt's,
\* and the first attempt runs with the page's profile.
C6_FallbackNeverCostsMore ==
    \A p \in Pages :
       log[p].p2 # NoParams =>
          /\ log[p].p2.res <= log[p].p1.res
          /\ log[p].p2.timeout <= log[p].p1.timeout
          /\ \E i \in 1..Len(profiles) :
                /\ profiles[i].page_num = p
                /\ log[p].p1 = [res |-> profiles[i].dpi, timeout |-> profiles[i].timeout_s]

\* a complex page downgraded by fast mode whose fallback still runs lower
C6_Witness ==
    \E i \in 1..Len(profiles) :
       /\ profiles[i].page_type = "complex"
       /\ profiles[i].dpi = FastDpi
       /\ profiles[i].timeout_s = FastTimeout
       /\ log[profiles[i].page_num].p2 = [res |-> 75, timeout |-> 5]

\* the (page number, content) pairs that were assembled: each text behind
\* the newline of its marker line and, but for the last, before the
\* blank line that separates it from the next marker
AssembledPairs ==
    [i \in 1..Len(sorted_pages) |->
        [num |-> sorted_pages[i],
         content |-> <<"n">> \o DictGet(all_results, sorted_pages[i])
                     \o (IF i < Len(sorted_pages) THEN <<"n", "n">> ELSE <<>>)]]

\* C8: splitting the returned text on the page-marker pattern recovers
\* exactly the (page number, page text) pairs that were assembled, whatever
\* the page texts are.
C8_SplitRecoversPages ==
    pc = "done" => PagePairs(full_text) = AssembledPairs

\* the content the page splitter finds for page p in text
ContentOf(text, p) ==
    LET pairs == PagePairs(text)
    IN  pairs[CHOOSE i \in 1..Len(pairs) : pairs[i].num = p].content

\* the merge is over and p's content is what it was in original_text
KeptOriginal(p) == ContentOf(result_text, p) = ContentOf(original_text, p)

\* the table reconstruction of p gave an empty or failed result
EmptyOrFailed(p) ==
    \/ m_kind[p] \in {"convert_raise", "noimage", "pipeline_raise", "read_raise",
                      "table_empty"}
    \/ (DictHas(table_results, p) /\ DictGet(table_results, p) = NoTextDetectedText(p))

\* C9: once the merge has returned, every selected page whose table
\* reconstruction gave an empty or failed result (conversion failed, OCR
\* error, no text detected, a grid whose cells got no words) has the
\* content it had in original_text.
C9_FailedPagesKeepOriginal ==
    m_pc = "done" => \A p \in Pages : EmptyOrFailed(p) => KeptOriginal(p)

\* C10: once the merge has returned, every selected page on which grid
\* detection found no table has the content it had in original_text.
C10_NoTableKeepsOriginal ==
    m_pc = "done" =>
       \A p \in Pages : m_kind[p] \in {"no_table", "no_table_raise"} => KeptOriginal(p)

\* page p is among the pages selected for table reconstruction
Selected(p) == \E i \in 1..Len(bordereau_pages) : bordereau_pages[i] = p

\* C11: once the merge has returned, every page that was not selected has
\* the content (from its marker to the next marker or the end) it had in
\* original_text, whatever text replaced the selected pages.
C11_UnselectedPagesUntouched ==
    m_pc = "done" => \A p \in Pages : ~Selected(p) => KeptOriginal(p)

\* C12: once the merge has returned, the page numbers carried by the page
\* markers of the output are, in sequence, those of original_text.
C12_MergeKeepsPageSet ==
    m_pc = "done" => MarkerNums(result_text) = MarkerNums(original_text)

\* C13: process_page_table never returns a table of fewer than 2 rows or
\* fewer than 2 columns.
C13_NoDegenerateTable ==
    g_result.kind = "table" => (g_result.rows >= 2 /\ g_result.cols >= 2)

\* the line detection has returned its positions
LinesFound == g_pc \notin {"idle", "start"} /\ g_result.kind # "detect_raise"

\* C14: once fewer than two horizontal or fewer than two vertical lines
\* have been found, process_page_table has returned "no table": it has not
\* raised and the engine was not called for word extraction.
C14_FewLinesGiveNoTable ==
    (LinesFound /\ (Len(h_positions) < 2 \/ Len(v_positions) < 2)) =>
        /\ g_pc = "done"
        /\ g_result.kind = "none"
        /\ g_calls = 0

\* C14 witness: one horizontal line and at least two vertical ones, and
\* "no table" returned.
C14_Witness ==
    /\ g_pc = "done"
    /\ Len(h_positions) = 1
    /\ Len(v_positions) >= 2
    /\ g_result.kind = "none"

\* the class whose profile has the lowest resolution and time budget
LightestClass ==
    CHOOSE c \in PageType :
       \A d \in PageType : /\ ProfileOf(1, c).dpi <= ProfileOf(1, d).dpi
                           /\ ProfileOf(1, c).timeout_s <= ProfileOf(1, d).timeout_s

\* C18: every call of the classifier returns a class, and on thumbnail
\* bytes it cannot analyse it returns the lightest-weight class.
C18_DefaultIsLightest ==
    \A i \in 1..Len(c_hist) :
       /\ c_hist[i].class \in PageType
       /\ ~c_hist[i].img.ok => c_hist[i].class = LightestClass

C15_OneProfilePerPage ==
    (doc_readable /\ built.state = "returned") =>
        /\ Len(built.profiles) = total_pages
        /\ \A i \in 1..Len(built.profiles) : built.profiles[i].page_num = i

\* the resolution and time budget of the lightest class
LightestDpi == ProfileOf(1, LightestClass).dpi
LightestTimeout == ProfileOf(1, LightestClass).timeout_s

BuiltOverBudget == 2 * EstimateCeiling < SumTimeouts(built.profiles)

C17_UnreadableIsSignalled ==
    (~doc_readable /\ built.state # "none") => built.state = "unreadable"

\* the page content has two digit runs with only whitespace, and at least
\* one whitespace character, between them
NumberNextToNumber(c) ==
    \E i \in 1..Len(c), j \in 1..Len(c) :
       /\ j > i + 1
       /\ IsDigit(c[i])
       /\ IsDigit(c[j])
       /\ \A m \in (i + 1)..(j - 1) : IsWs(c[m])

\* the selection rule as stated, on one page's content
Qualifies(c) ==
    LET keywords == Cardinality({i \in 1..Len(c) : c[i] = "K"})
        pipes == Cardinality({i \in 1..Len(c) : c[i] = "|"})
    IN  \/ keywords >= 2
        \/ keywords >= 1 /\ (pipes > PipeLimit \/ NumberNextToNumber(c))

\* C20: when no page is forced, the pages detect_bordereau_pages returns are
\* exactly the pages of the marker-delimited text with at least 2 keyword
\* matches, or at least 1 and either more than 5 '|' or two numbers next to
\* each other; each qualifying page is returned once.
C20_SelectionRule ==
    (m_pc # "select" /\ force_pages = <<>>) =>
        LET pairs == PagePairs(original_text)
            hits == {k \in 1..Len(pairs) : Qualifies(pairs[k].content)}
        IN  /\ Len(bordereau_pages) = Cardinality(hits)
            /\ \A k \in 1..Len(pairs) :
                  Selected(pairs[k].num) <=>
                     \E h \in hits : pairs[h].num = pairs[k].num

\* C20 witness: of two pages with one keyword each, the one with six '|' is
\* selected and the one with five is not.
C20_Witness ==
    /\ m_pc # "select"
    /\ force_pages = <<>>
    /\ \E p \in Pages, q \in Pages :
          /\ p # q
          /\ Len(PagePairs(original_text)) = 2
          /\ CountTok(ContentOf(original_text, p), "K") = 1
          /\ CountTok(ContentOf(original_text, q), "K") = 1
          /\ CountTok(ContentOf(original_text, p), "|") = PipeLimit + 1
          /\ CountTok(ContentOf(original_text, q), "|") = PipeLimit
          /\ Selected(p)
          /\ ~Selected(q)

\* C21: when no page is forced and detect_bordereau_pages finds none in a
\* text that has pages, reocr_bordereau_pages still selects some pages and
\* goes on to re-process them.
C21_FallsBackToLastPages ==
    (/\ m_pc # "select"
     /\ force_pages = <<>>
     /\ PagePairs(original_text) # <<>>
     /\ detect_bordereau_pages(original_text) = <<>>) =>
        /\ bordereau_pages # <<>>
        /\ m_pc = "ocr" \/ table_results # <<>> \/ result_text # <<>>

\* the set of the elements of a sequence
SeqRange(q) == {q[i] : i \in 1..Len(q)}

\* C22: in reocr_bordereau_pages_azure, when pages are forced, or none is
\* forced and the primary detection returns at least one page, the pages
\* selected, sent to the analysis and given a result are all among the
\* forced (resp. detected) pages; the last-pages fallback adds none.
C22_FallbackOnlyWhenEmpty ==
    LET primary == IF a_force # <<>> THEN a_force ELSE a_detected.pages
    IN  (a_pc \notin {"idle", "select"} /\ primary # <<>>) =>
            /\ a_pages # <<>>
            /\ SeqRange(a_pages) \subseteq SeqRange(primary)
            /\ a_sent.called => SeqRange(a_sent.pages) \subseteq SeqRange(primary)
            /\ SeqRange(DictKeys(azure_results)) \subseteq SeqRange(primary)

\* C22 witness: page 1 alone was forced or detected in a document long
\* enough for the last pages not to include it, and it alone was analysed.
C22_Witness ==
    /\ a_pc = "done"
    /\ Len(PagePairs(a_text)) > LastPages
    /\ a_force = <<1>> \/ (a_force = <<>> /\ a_detected.pages = <<1>>)
    /\ a_sent = [called |-> TRUE, pages |-> <<1>>]
    /\ azure_results # <<>>

\* C23: a page whose first attempt timed out, in the plain-text call or in
\* the word-detection call of the table stage, goes on to the fallback
\* attempt before its task ends; and a page recorded with the timeout
\* placeholder has had its fallback attempt.
C23_TimeoutGoesToFallback ==
    \A p \in Pages :
        /\ (log[p].timeout1 /\ task[p] \in {"finished", "collected"}) =>
              log[p].attempts = 2
        /\ (DictHas(all_results, p) /\ DictGet(all_results, p) = FutureTimeoutText(p)) =>
              log[p].attempts = 2

\* C24: the fallback attempt of a page is made only after its first attempt
\* raised or timed out; a page whose first attempt returned, with text or
\* with none, has had one attempt, its task is over, and what is recorded
\* for it is not the fallback's placeholder.
C24_FallbackOnlyAfterFailure ==
    \A p \in Pages :
        /\ (log[p].attempts = 2 \/ log[p].a2 # "none" \/ task[p] = "fallback") =>
              log[p].a1 = "fail"
        /\ log[p].a1 = "ok" =>
              /\ log[p].attempts = 1
              /\ log[p].p2 = NoParams
              /\ task[p] \in {"finished", "collected"}
              /\ task[p] = "finished" => fut[p].text # OcrFailedText(p)
              /\ task[p] = "collected" => DictGet(all_results, p) # OcrFailedText(p)

\* C24 witness: the call returned with a page whose first attempt returned
\* empty text, recorded as such after one attempt.
C24_Witness ==
    /\ pc = "done"
    /\ \E p \in Pages :
          /\ log[p].a1 = "ok"
          /\ log[p].attempts = 1
          /\ DictGet(all_results, p) = <<>>

\* C25: when a worker's engine call has not come back past its inner
\* timeout, the scheduler is not stuck behind it: either a result is
\* recorded for that page, or some other step (another page's task, the
\* next batch, the final assembly) is possible.
C25_OuterTimeoutUnblocks ==
    \A p \in Pages :
        task[p] = "hung" => (DictHas(all_results, p) \/ ENABLED Next)

\* C26: whatever the machine's processor count and the batch size, the pool
\* is sized at 2 workers and at most 2 worker threads hold a page at any
\* moment.
C26_AtMostTwoWorkers ==
    /\ max_workers = 2
    /\ Cardinality(Running) <= 2

\* the result slot of page p holds something else after the step than before
SlotWritten(p) ==
    /\ DictHas(all_results', p)
    /\ ~DictHas(all_results, p) \/ DictGet(all_results', p) # DictGet(all_results, p)

C28_SingleEngine ==
    /\ n_built <= 1
    /\ paddle_instance \in {0, 1}
    /\ n_built = 1 => paddle_instance = 1
    /\ \A t \in Threads : \A r \in t_rets[t] :
          /\ r.val = 0 <=> r.via = "failed"
          /\ r.val # 0 => r.val = paddle_instance
    /\ \A t \in Threads, u \in Threads :
          \A r \in t_rets[t], q \in t_rets[u] :
             (r.val # 0 /\ q.val # 0) => r.val = q.val

\* C28 witness: two threads were inside the call together; one built the
\* engine, the other found it only under the lock, and a later call took the
\* early return; all got the engine.
C28_Witness ==
    \E t \in Threads, u \in Threads :
       /\ t # u
       /\ [val |-> 1, via |-> "built"] \in t_rets[t]
       /\ [val |-> 1, via |-> "locked"] \in t_rets[u]
       /\ [val |-> 1, via |-> "fast"] \in t_rets[u]

\* the class the stated rule gives to measures h (horizontal lines), e
\* (edges) and t (text pixels)
StatedClass(h, e, t) ==
    LET high == h > HLineHigh /\ e > EdgeHigh
        moderate == h > HLineModerate \/ e > EdgeModerate
        very_low == t < TextLow
    IN  CASE high -> "complex"
          [] ~high /\ moderate -> "medium"
          [] ~high /\ ~moderate /\ very_low -> "image"
          [] ~high /\ ~moderate /\ ~very_low -> "simple"

\* C29: for every thumbnail that could be measured, the class returned is
\* one of the four classes and is the one the stated rule gives: complex
\* when both line and edge density are high, else medium when either is
\* moderate, else image-heavy when text density is very low, else simple.
C29_RuleOrder ==
    \A i \in 1..Len(c_hist) :
        c_hist[i].img.ok =>
            /\ c_hist[i].class \in PageType
            /\ c_hist[i].class = StatedClass(c_hist[i].img.h, c_hist[i].img.e, c_hist[i].img.t)

\* C29 witness: two thumbnails with high line density and very low text
\* density were classified: the one with high edge density as complex, the
\* one with edge density at the moderate threshold as medium.
C29_Witness ==
    /\ Len(c_hist) = 2
    /\ c_hist[1].img = [ok |-> TRUE, h |-> HLineHigh + 1, e |-> EdgeHigh + 1, t |-> TextLow - 1]
    /\ c_hist[1].class = "complex"
    /\ c_hist[2].img = [ok |-> TRUE, h |-> HLineHigh + 1, e |-> EdgeModerate, t |-> TextLow - 1]
    /\ c_hist[2].class = "medium"

\* C30: the timeouts of the engine calls made during a page's first attempt
\* (the word-detection call of the table stage and the plain-text call) add
\* up to no more than the time budget of the page's profile.
C30_FirstAttemptWithinBudget ==
    \A p \in Pages :
        log[p].attempts >= 1 => log[p].budget1 <= log[p].p1.timeout

\* C31: a page whose word-detection call timed out during the first
\* attempt does not end with a table of empty cells as its text: once its
\* task is over after that one attempt, its text is something else than the
\* empty table.
C31_NoEmptyTableAfterFailure ==
    \A p \in Pages :
        (log[p].timeout1 /\ log[p].attempts = 1 /\ task[p] = "collected") =>
            DictGet(all_results, p) # LatexOf(<<>>)

\* C38: once build_page_profiles has returned, the profiles the scheduler
\* works with are the ones it returned, field for field, at every later
\* step.
C38_ProfilesReadOnly ==
    (built.state = "returned" /\ pc \in {"p_plan", "p_done"}) =>
        profiles = built.profiles

\* row indices and column indices of the cells of the table
RowsOf(grid_cells) == {grid_cells[i].row : i \in 1..Len(grid_cells)}
ColsOf(grid_cells) == {grid_cells[i].col : i \in 1..Len(grid_cells)}

\* C32: a returned DetectedTable has rows = 1 + the largest row index of its
\* cells and cols = 1 + the largest column index, and the serialized form
\* announces and holds the same numbers of rows and columns.
C32_CountsFromMaxIndex ==
    g_result.kind = "table" =>
        /\ g_result.rows - 1 \in RowsOf(cells)
        /\ \A r \in RowsOf(cells) : r <= g_result.rows - 1
        /\ g_result.cols - 1 \in ColsOf(cells)
        /\ \A k \in ColsOf(cells) : k <= g_result.cols - 1
        /\ g_latex.n_rows = g_result.rows
        /\ g_latex.n_cols = g_result.cols
        /\ Len(g_latex.rows) = g_result.rows

\* C32 witness: a table returned whose first row of cells was a sliver, so
\* that its cells sit in rows 1 and 2 only and rows is 3.
C32_Witness ==
    /\ g_result.kind = "table"
    /\ RowsOf(cells) = {1, 2}
    /\ g_result.rows = 3

\* coordinates of the points probed: on the lines and between them
ProbeCoords == Positions \cup {10, 30}

\* the cells whose containment test the point (px, py) satisfies
CellsHolding(grid_cells, px, py) ==
    {i \in 1..Len(grid_cells) : Inside(grid_cells[i], [cx |-> px, cy |-> py])}

\* C33: the cells built from sorted line positions never overlap: each spans
\* one pair of consecutive horizontal and one pair of consecutive vertical
\* positions, no two share (row, col), and no point, on a grid line or not,
\* passes the containment test of two cells.
C33_CellsNeverOverlap ==
    /\ \A i \in 1..Len(cells) :
          /\ cells[i].row + 2 <= Len(h_positions)
          /\ cells[i].col + 2 <= Len(v_positions)
          /\ cells[i].y = h_positions[cells[i].row + 1]
          /\ cells[i].y + cells[i].h = h_positions[cells[i].row + 2]
          /\ cells[i].x = v_positions[cells[i].col + 1]
          /\ cells[i].x + cells[i].w = v_positions[cells[i].col + 2]
    /\ \A i, j \in 1..Len(cells) :
          (cells[i].row = cells[j].row /\ cells[i].col = cells[j].col) => i = j
    /\ \A px, py \in ProbeCoords : Cardinality(CellsHolding(cells, px, py)) <= 1

\* the fields of a row line: its tokens up to the closing " \\", cut at
\* every column separator
RECURSIVE SplitAmp(_, _)
SplitAmp(tokens, field) ==
    IF Len(tokens) = 0 THEN <<field>>
    ELSE IF tokens[1] = "&" THEN <<field>> \o SplitAmp(Tail(tokens), <<>>)
    ELSE SplitAmp(Tail(tokens), Append(field, tokens[1]))

FieldsOf(line) == SplitAmp(SubSeq(line, 1, Len(line) - 2), <<>>)

\* the words read back from a field: blanks dropped, "\&" read as "&"
WordsIn(field) ==
    LET ws == SelectSeq(field, LAMBDA t : t # "s")
    IN  [i \in 1..Len(ws) |-> IF ws[i] = "\\&" THEN "&" ELSE ws[i]]

\* the words of the cell at (r, k), none if the grid has no cell there
WordsAt(grid_cells, r, k) ==
    IF \E i \in 1..Len(grid_cells) : grid_cells[i].row = r /\ grid_cells[i].col = k
    THEN grid_cells[CHOOSE i \in 1..Len(grid_cells) :
                        grid_cells[i].row = r /\ grid_cells[i].col = k].words
    ELSE <<>>

\* C34: the serialized table has row_count row lines of col_count fields
\* each; the field at (row, col) holds the words of the cell at (row, col),
\* and is empty, but present, where the cell has no word or was a sliver.
C34_FieldsStayInPlace ==
    g_result.kind = "table" =>
        /\ Len(g_latex.rows) = g_result.rows
        /\ \A r \in 1..Len(g_latex.rows) :
              /\ Len(FieldsOf(g_latex.rows[r])) = g_result.cols
              /\ \A k \in 1..Len(FieldsOf(g_latex.rows[r])) :
                    WordsIn(FieldsOf(g_latex.rows[r])[k]) = WordsAt(cells, r - 1, k - 1)

\* C34 witness: a serialized table with a sliver position, a cell without
\* words and a cell holding an ampersand.
C34_Witness ==
    /\ g_result.kind = "table"
    /\ Len(cells) < g_result.rows * g_result.cols
    /\ \E i, j \in 1..Len(cells) :
          /\ cells[i].words = <<>>
          /\ \E n \in 1..Len(cells[j].words) : cells[j].words[n] = "&"

\* the centre of word k of the page lies inside some cell
CentreInside(k) ==
    \E i \in 1..Len(cells) : Inside(cells[i], word_center(g_words[k]))

\* how many times the text t stands in a list of texts
CountOf(t, texts) == Cardinality({n \in 1..Len(texts) : texts[n] = t})

\* the cells holding the text t
HoldersOf(t) == {i \in 1..Len(cells) : CountOf(t, cells[i].words) > 0}

\* no other word of the page has the text of word k
UniqueText(k) == \A n \in 1..Len(g_words) : g_words[n].text = g_words[k].text => n = k

\* C35: after the assignment, a word whose centre lies inside a cell has been
\* appended, once, to one cell containing its centre and to no other cell
\* (read on the words whose text no other word of the page has).
C35_WordGoesToItsCell ==
    g_result.kind = "table" =>
        \A k \in 1..Len(g_words) :
            (CentreInside(k) /\ UniqueText(k)) =>
                /\ Cardinality(HoldersOf(g_words[k].text)) = 1
                /\ \A i \in HoldersOf(g_words[k].text) :
                      /\ Inside(cells[i], word_center(g_words[k]))
                      /\ CountOf(g_words[k].text, cells[i].words) = 1

\* C35 witness: a word assigned whose centre is on the line shared by two
\* cells, next to a word that lies in no cell.
C35_Witness ==
    /\ g_result.kind = "table"
    /\ \E k, n \in 1..Len(g_words) :
          /\ UniqueText(k)
          /\ Cardinality(CellsHolding(cells, word_center(g_words[k]).cx,
                                      word_center(g_words[k]).cy)) >= 2
          /\ ~CentreInside(n)

\* the distance from the centre of word k to the centre of cell i
DistTo(k, i) == CentreDist(cells[i], word_center(g_words[k]))

\* the cells word k is close enough to: nearer to the centre than half of
\* w + h, the bound excluded
InReach(k) == {i \in 1..Len(cells) : 2 * DistTo(k, i) < cells[i].w + cells[i].h}

\* C36 as stated: a word whose centre lies in no cell is assigned only to the
\* cell with the nearest centre and only within half of that cell's average
\* dimension, (w + h) / 4, and is dropped when farther than that from every
\* cell centre.
C36_HalfAverageBound ==
    g_result.kind = "table" =>
        \A k \in 1..Len(g_words) :
            (~CentreInside(k) /\ UniqueText(k)) =>
                /\ \A i \in HoldersOf(g_words[k].text) :
                      /\ 4 * DistTo(k, i) <= cells[i].w + cells[i].h
                      /\ \A j \in 1..Len(cells) : DistTo(k, i) <= DistTo(k, j)
                /\ (\A i \in 1..Len(cells) : 4 * DistTo(k, i) > cells[i].w + cells[i].h)
                      => HoldersOf(g_words[k].text) = {}

\* C36: a word whose centre lies in no cell is appended, once, to the
\* nearest (first on ties) of the cells whose centre is at a distance
\* strictly below that cell's (w + h) / 2, the distance being
\* |dx| + |dy|; with no such cell it is dropped.
C36_ReachBound ==
    g_result.kind = "table" =>
        \A k \in 1..Len(g_words) :
            (~CentreInside(k) /\ UniqueText(k)) =>
                IF InReach(k) = {} THEN HoldersOf(g_words[k].text) = {}
                ELSE \E i \in InReach(k) :
                        /\ HoldersOf(g_words[k].text) = {i}
                        /\ CountOf(g_words[k].text, cells[i].words) = 1
                        /\ \A j \in InReach(k) :
                              /\ DistTo(k, i) <= DistTo(k, j)
                              /\ DistTo(k, i) = DistTo(k, j) => i <= j

\* C36 witness: one word outside every cell assigned to a cell whose centre
\* is farther than (w + h) / 4, another one dropped.
C36_Witness ==
    /\ g_result.kind = "table"
    /\ \E k, n \in 1..Len(g_words) :
          /\ ~CentreInside(k) /\ UniqueText(k)
          /\ \E i \in HoldersOf(g_words[k].text) : 4 * DistTo(k, i) > cells[i].w + cells[i].h
          /\ ~CentreInside(n) /\ UniqueText(n)
          /\ HoldersOf(g_words[n].text) = {}

\* the number of words held by the first n cells
RECURSIVE WordsHeld(_, _)
WordsHeld(grid_cells, n) ==
    IF n = 0 THEN 0 ELSE Len(grid_cells[n].words) + WordsHeld(grid_cells, n - 1)

\* C37: after the assignment the cells hold, together, no more words than
\* the page gave, and exactly as many when the centre of every word lies
\* inside some cell.
C37_WordConservation ==
    g_result.kind = "table" =>
        /\ WordsHeld(cells, Len(cells)) <= Len(g_words)
        /\ (\A k \in 1..Len(g_words) : CentreInside(k))
              => WordsHeld(cells, Len(cells)) = Len(g_words)

\* C37 witness: two words, both with their centre inside a cell, one of them
\* on a line shared by two cells, assigned.
C37_Witness ==
    /\ g_result.kind = "table"
    /\ Len(g_words) = 2
    /\ \A k \in 1..Len(g_words) : CentreInside(k)
    /\ \E k \in 1..Len(g_words) :
          Cardinality(CellsHolding(cells, word_center(g_words[k]).cx,
                                   word_center(g_words[k]).cy)) >= 2
    /\ WordsHeld(cells, Len(cells)) = 2

\* the scraper threads started and not ended
AliveThreads == {j \in Requests : thr_pc[j] \in {"started", "scraping"}}

\* C39: at any time at most one scraper thread is alive and at most one
\* ScraperJob is RUNNING, however the POST requests interleave.
C39_SingleScraperJob ==
    /\ Cardinality(AliveThreads) <= 1
    /\ Cardinality({j \in Requests : job_status[j] = "RUNNING"}) <= 1

\* the place of a group in the processing order
GroupRank(group) == IF group = "bordereau" THEN 1 ELSE IF group = "cps" THEN 2 ELSE 3

\* C40: the documents are processed group by group, bordereau files, then
\* CPS files, then the others, each file from the list of its group;
\* on_bordereau_ready has been called at most once, with a non-empty list of
\* successfully extracted documents, before any file of the others.
C40_PriorityOrderAndOneCallback ==
    /\ \A i, j \in 1..Len(all_documents) :
          i < j => GroupRank(all_documents[i].group) <= GroupRank(all_documents[j].group)
    /\ \A i \in 1..Len(all_documents) :
          \E n \in 1..Len(NameOrder) :
              /\ NameOrder[n] = all_documents[i].filename
              /\ all_documents[i].group = "bordereau" => SelectSeq(bordereau_files, LAMBDA f : f = NameOrder[n]) # <<>>
              /\ all_documents[i].group = "cps" => SelectSeq(cps_files, LAMBDA f : f = NameOrder[n]) # <<>>
              /\ all_documents[i].group = "other" => SelectSeq(other_files, LAMBDA f : f = NameOrder[n]) # <<>>
    /\ Len(ready_calls) <= 1
    /\ \A c \in 1..Len(ready_calls) :
          /\ ready_calls[c].docs # <<>>
          /\ \A n \in 1..Len(ready_calls[c].docs) : ready_calls[c].docs[n].ok
          /\ \A i \in 1..ready_calls[c].at : all_documents[i].group # "other"

\* C40 witness: a call that has returned after processing files of the three
\* groups, some of them without success, and calling on_bordereau_ready.
C40_Witness ==
    /\ d_pc = "done"
    /\ DocsOf("bordereau") # <<>> /\ DocsOf("cps") # <<>> /\ DocsOf("other") # <<>>
    /\ \E i \in 1..Len(all_documents) : ~all_documents[i].ok
    /\ Len(ready_calls) = 1

====
